---- MODULE Spec2Model ----
(***************************************************************************)
(* The Questions tab of the quiz editor (frontend/src/pages):              *)
(*   QuizQuestionsTab.tsx  the tab with AI generation   (variant "ai")     *)
(*   QuizPage.tsx          the tab without it           (variant "plain")  *)
(* The tab holds a local tree Subjects -> Questions -> Answers, sends one  *)
(* REST request per mutation and resynchronises the tree from the server.  *)
(* Every `await` of a handler is a point where other handlers may run, so  *)
(* a handler is one action up to its first await and one action per        *)
(* continuation.  The backend is not part of the modelled sources: it is   *)
(* a store that applies a write as sent, or rejects it.                    *)
(***************************************************************************)
EXTENDS Integers, Sequences, FiniteSets, TLC

(* ------------------------------ bounds -------------------------------- *)
MaxSubjects == 2
MaxQuestions == 2
MaxAnswers == 2
MaxTasks == 2
MaxOps == 2

SubjectIds == 1..MaxSubjects
QuestionIds == 1..MaxQuestions
AnswerIds == 1..MaxAnswers
TaskIds == 1..MaxTasks

QuestionTypes == {"simple", "multiple-choice", "open"}
Directions == {-1, 1}
Null == "null"

(* --------------------------- array helpers ---------------------------- *)
\* Indexes are 0-based as in the source; -1 is findIndex's "not found".
At(s, k) == s[k + 1]

RemoveAt(s, k) == SubSeq(s, 1, k) \o SubSeq(s, k + 2, Len(s))

InsertAt(s, k, x) ==
  LET p == IF k > Len(s) THEN Len(s) ELSE k
  IN  SubSeq(s, 1, p) \o <<x>> \o SubSeq(s, p + 1, Len(s))

ReplaceAt(s, k, x) == [s EXCEPT ![k + 1] = x]

Range(s) == {s[i] : i \in 1..Len(s)}

SubjectFindIndex(subs, subjectUuid) ==
  LET hits == {i \in 1..Len(subs) : subs[i].subject_uuid = subjectUuid}
  IN  IF hits = {} THEN -1
      ELSE (CHOOSE i \in hits : \A j \in hits : i <= j) - 1

QuestionFindIndex(questions, questionUuid) ==
  LET hits == {i \in 1..Len(questions) : questions[i].question_uuid = questionUuid}
  IN  IF hits = {} THEN -1
      ELSE (CHOOSE i \in hits : \A j \in hits : i <= j) - 1

AnswerFindIndex(answers, answerUuid) ==
  LET hits == {i \in 1..Len(answers) : answers[i].answer_uuid = answerUuid}
  IN  IF hits = {} THEN -1
      ELSE (CHOOSE i \in hits : \A j \in hits : i <= j) - 1

(* ------------------------------ the tree ------------------------------ *)
MkAnswer(a, c) == [answer_uuid |-> a, correct |-> c]

MkQuestion(q, ty, ans) ==
  [question_uuid |-> q, question_type |-> ty, illustration |-> FALSE, answers |-> ans]

MkSubject(s, qs) == [subject_uuid |-> s, questions |-> qs]

QuestionUuids(questions) == [i \in 1..Len(questions) |-> questions[i].question_uuid]

AnswerUuids(answers) == [i \in 1..Len(answers) |-> answers[i].answer_uuid]

SubjectUuids(subs) == [i \in 1..Len(subs) |-> subs[i].subject_uuid]

RECURSIVE Flatten(_)
Flatten(ss) == IF ss = <<>> THEN <<>> ELSE Head(ss) \o Flatten(Tail(ss))

AllQuestions(subs) == Flatten([i \in 1..Len(subs) |-> subs[i].questions])

AllAnswers(subs) ==
  LET qs == AllQuestions(subs) IN Flatten([i \in 1..Len(qs) |-> qs[i].answers])

\* The layout a tree shows: every subject with its question ids, in order.
LayoutOf(subs) ==
  [i \in 1..Len(subs) |->
     [subject_uuid |-> subs[i].subject_uuid,
      question_uuids |-> QuestionUuids(subs[i].questions)]]

\* A response body: `has` tells whether it carries a subjects list.
NoBody == [has |-> FALSE, subjects |-> <<>>]

TreeBody(tree) == [has |-> TRUE, subjects |-> tree]

\* normalizeSubjects(input): `undefined` (a body without a subjects list)
\* becomes the empty tree; a list is rebuilt subject by subject, question by
\* question, answer by answer.
normalizeAnswer(answer) ==
  [answer_uuid |-> answer.answer_uuid, correct |-> (answer.correct = TRUE)]

normalizeQuestion(question) ==
  [question_uuid |-> question.question_uuid,
   question_type |-> question.question_type,
   illustration |-> question.illustration,
   answers |-> [i \in 1..Len(question.answers) |-> normalizeAnswer(question.answers[i])]]

normalizeSubjects(input) ==
  IF ~input.has THEN <<>>
  ELSE [i \in 1..Len(input.subjects) |->
          [subject_uuid |-> input.subjects[i].subject_uuid,
           questions |-> [j \in 1..Len(input.subjects[i].questions) |->
                            normalizeQuestion(input.subjects[i].questions[j])]]]

(* ------------------- reorderQuestions: the layout --------------------- *)
\* The target of a move: inside the subject, or the tail of the previous
\* subject (up past the first slot), or the head of the next subject (down
\* past the last slot).
reorderTargetSubjectIndex(subs, subjectIndex, questionIndex, direction) ==
  IF questionIndex + direction < 0 THEN subjectIndex - 1
  ELSE IF questionIndex + direction >= Len(At(subs, subjectIndex).questions)
       THEN subjectIndex + 1
       ELSE subjectIndex

reorderTargetPosition(subs, subjectIndex, questionIndex, direction) ==
  IF questionIndex + direction < 0
  THEN Len(At(subs, subjectIndex - 1).questions)
  ELSE IF questionIndex + direction >= Len(At(subs, subjectIndex).questions)
       THEN 0
       ELSE questionIndex + direction

\* The moved id is spliced out of its subject's list and spliced into the
\* target subject's list at the target position.
SpliceLayout_InsertOnly(layout, subjectIndex, questionIndex, targetSubjectIndex, targetPosition, questionUuid) ==
  ReplaceAt(layout, targetSubjectIndex,
            [At(layout, targetSubjectIndex) EXCEPT
               !.question_uuids = InsertAt(@, targetPosition, questionUuid)])

SpliceLayout(layout, subjectIndex, questionIndex, targetSubjectIndex, targetPosition, questionUuid) ==
  LET removed ==
        ReplaceAt(layout, subjectIndex,
                  [At(layout, subjectIndex) EXCEPT
                     !.question_uuids = RemoveAt(@, questionIndex)])
  IN  ReplaceAt(removed, targetSubjectIndex,
                [At(removed, targetSubjectIndex) EXCEPT
                   !.question_uuids = InsertAt(@, targetPosition, questionUuid)])

NoPlan == [send |-> FALSE, layout |-> <<>>]

\* Mutants of reorderQuestionsPlan (plausible slips of the index arithmetic).
\* A move past the tree's edge is clamped and sent instead of refused.
reorderQuestionsPlan_Clamped(subs, subjectUuid, questionUuid, direction) ==
  LET subjectIndex == SubjectFindIndex(subs, subjectUuid) IN
  IF subjectIndex = -1 THEN NoPlan
  ELSE IF QuestionFindIndex(At(subs, subjectIndex).questions, questionUuid) = -1
  THEN NoPlan
  ELSE
    LET questionIndex == QuestionFindIndex(At(subs, subjectIndex).questions, questionUuid)
        edge == \/ (questionIndex + direction < 0 /\ subjectIndex = 0)
                \/ (/\ questionIndex + direction >= Len(At(subs, subjectIndex).questions)
                    /\ subjectIndex = Len(subs) - 1)
    IN  IF edge THEN [send |-> TRUE, layout |-> LayoutOf(subs)]
        ELSE [send |-> TRUE,
              layout |-> SpliceLayout(LayoutOf(subs), subjectIndex, questionIndex,
                           reorderTargetSubjectIndex(subs, subjectIndex, questionIndex, direction),
                           reorderTargetPosition(subs, subjectIndex, questionIndex, direction),
                           questionUuid)]

\* A question that crosses a subject boundary lands at the wrong end of the
\* adjacent subject's list.
reorderQuestionsPlan_WrongEnd(subs, subjectUuid, questionUuid, direction) ==
  LET subjectIndex == SubjectFindIndex(subs, subjectUuid) IN
  IF subjectIndex = -1 THEN NoPlan
  ELSE IF QuestionFindIndex(At(subs, subjectIndex).questions, questionUuid) = -1
  THEN NoPlan
  ELSE
    LET questionIndex == QuestionFindIndex(At(subs, subjectIndex).questions, questionUuid)
        edge == \/ (questionIndex + direction < 0 /\ subjectIndex = 0)
                \/ (/\ questionIndex + direction >= Len(At(subs, subjectIndex).questions)
                    /\ subjectIndex = Len(subs) - 1)
        targetSubjectIndex ==
          reorderTargetSubjectIndex(subs, subjectIndex, questionIndex, direction)
        targetPosition ==
          IF targetSubjectIndex = subjectIndex THEN questionIndex + direction
          ELSE IF direction = 1 THEN Len(At(subs, targetSubjectIndex).questions)
          ELSE 0
    IN  IF edge THEN NoPlan
        ELSE [send |-> TRUE,
              layout |-> SpliceLayout(LayoutOf(subs), subjectIndex, questionIndex,
                           targetSubjectIndex, targetPosition, questionUuid)]

\* A move inside a subject leaves the order as it is.
reorderQuestionsPlan_NoSwap(subs, subjectUuid, questionUuid, direction) ==
  LET subjectIndex == SubjectFindIndex(subs, subjectUuid) IN
  IF subjectIndex = -1 THEN NoPlan
  ELSE IF QuestionFindIndex(At(subs, subjectIndex).questions, questionUuid) = -1
  THEN NoPlan
  ELSE
    LET questionIndex == QuestionFindIndex(At(subs, subjectIndex).questions, questionUuid)
        edge == \/ (questionIndex + direction < 0 /\ subjectIndex = 0)
                \/ (/\ questionIndex + direction >= Len(At(subs, subjectIndex).questions)
                    /\ subjectIndex = Len(subs) - 1)
        targetSubjectIndex ==
          reorderTargetSubjectIndex(subs, subjectIndex, questionIndex, direction)
    IN  IF edge THEN NoPlan
        ELSE [send |-> TRUE,
              layout |-> SpliceLayout(LayoutOf(subs), subjectIndex, questionIndex,
                           targetSubjectIndex,
                           IF targetSubjectIndex = subjectIndex THEN questionIndex
                           ELSE reorderTargetPosition(subs, subjectIndex, questionIndex, direction),
                           questionUuid)]

\* reorderQuestions after its lock test: whether a PATCH is sent, and the
\* layout it carries.
reorderQuestionsPlan(subs, subjectUuid, questionUuid, direction) ==
  LET subjectIndex == SubjectFindIndex(subs, subjectUuid) IN
  IF subjectIndex = -1 THEN NoPlan
  ELSE IF QuestionFindIndex(At(subs, subjectIndex).questions, questionUuid) = -1
  THEN NoPlan
  ELSE
    LET questionIndex == QuestionFindIndex(At(subs, subjectIndex).questions, questionUuid)
    IN  IF questionIndex + direction < 0 /\ subjectIndex = 0 THEN NoPlan
        ELSE IF /\ questionIndex + direction >= 0
                /\ questionIndex + direction >= Len(At(subs, subjectIndex).questions)
                /\ subjectIndex = Len(subs) - 1
        THEN NoPlan
        ELSE [send |-> TRUE,
              layout |-> SpliceLayout(LayoutOf(subs), subjectIndex, questionIndex,
                           reorderTargetSubjectIndex(subs, subjectIndex, questionIndex, direction),
                           reorderTargetPosition(subs, subjectIndex, questionIndex, direction),
                           questionUuid)]

\* reorderSubjects after its lock test: the subject is spliced out and back
\* in one place further; the PATCH carries the full list of subject ids.
NoOrder == [send |-> FALSE, ids |-> <<>>]

\* A mutant: the subject goes to the end of the list on its way.
reorderSubjectsPlan_ToTheEnd(subs, subjectUuid, direction) ==
  LET currentIndex == SubjectFindIndex(subs, subjectUuid)
      targetIndex == currentIndex + direction
  IN  IF currentIndex = -1 THEN NoOrder
      ELSE IF targetIndex < 0 \/ targetIndex >= Len(subs) THEN NoOrder
      ELSE [send |-> TRUE,
            ids |-> InsertAt(RemoveAt(SubjectUuids(subs), currentIndex),
                             IF direction = 1 THEN Len(subs) - 1 ELSE 0, subjectUuid)]

reorderSubjectsPlan(subs, subjectUuid, direction) ==
  LET currentIndex == SubjectFindIndex(subs, subjectUuid)
      targetIndex == currentIndex + direction
  IN  IF currentIndex = -1 THEN NoOrder
      ELSE IF targetIndex < 0 \/ targetIndex >= Len(subs) THEN NoOrder
      ELSE [send |-> TRUE,
            ids |-> InsertAt(RemoveAt(SubjectUuids(subs), currentIndex),
                             targetIndex, subjectUuid)]

(* ------------------------- status and errors -------------------------- *)
\* The generic message of each operation's catch block, and the messages a
\* response can carry instead.
ServerError == "error sent by the server"
NetworkError == "Failed to fetch"

Fallback(op) ==
  CASE op = "load" -> "Impossible de charger les questions."
    [] op = "createQuestion" -> "Impossible de creer la question."
    [] op = "updateQuestion" -> "Impossible de mettre a jour la question."
    [] op = "deleteQuestion" -> "Impossible de supprimer la question."
    [] op = "reorderSubjects" -> "Impossible de reordonner les sections."
    [] op = "reorderQuestions" -> "Impossible de reordonner les questions."
    [] op = "addAnswer" -> "Impossible d'ajouter la reponse."
    [] op = "updateAnswer" -> "Impossible de mettre a jour la reponse."
    [] op = "deleteAnswer" -> "Impossible de supprimer la reponse."
    [] op = "reorderAnswers" -> "Impossible de reordonner les reponses."
    [] op = "uploadIllustration" -> "Impossible de televerser l'illustration."
    [] op = "removeIllustration" -> "Impossible de retirer l'illustration."

FetchFallback == "Impossible de charger les questions."

\* What `data?.error ?? fallback` (or the thrown error's message) is for a
\* failed request.
ErrorMessage_ServerOrFallback(resp, fallback) ==
  IF resp.outcome = "httpError" THEN ServerError ELSE fallback

ErrorMessage(resp, fallback) ==
  CASE resp.outcome = "httpError" -> ServerError
    [] resp.outcome = "httpErrorNoBody" -> fallback
    [] resp.outcome = "networkError" -> NetworkError

Succeeded(resp) == resp.outcome \in {"ok", "okNoSubjects"}

(* --------------------- the backend (not in src/) ---------------------- *)
KnownQuestions(tree) == {AllQuestions(tree)[i].question_uuid : i \in 1..Len(AllQuestions(tree))}

QuestionRecord(tree, q) ==
  LET qs == AllQuestions(tree) IN qs[CHOOSE i \in 1..Len(qs) : qs[i].question_uuid = q]

MentionedQuestions(layout) == UNION {Range(layout[i].question_uuids) : i \in 1..Len(layout)}

\* PATCH questions/order: every listed subject gets the listed questions in
\* the listed order; a question the layout does not mention stays where it is.
ApplyQuestionOrder(tree, layout) ==
  [i \in 1..Len(tree) |->
     LET k == {j \in 1..Len(layout) : layout[j].subject_uuid = tree[i].subject_uuid}
         listed == IF k = {} THEN <<>>
                   ELSE SelectSeq(layout[CHOOSE j \in k : TRUE].question_uuids,
                                  LAMBDA q : q \in KnownQuestions(tree))
         kept == SelectSeq(tree[i].questions,
                           LAMBDA r : r.question_uuid \notin MentionedQuestions(layout))
     IN  [subject_uuid |-> tree[i].subject_uuid,
          questions |-> [n \in 1..Len(listed) |-> QuestionRecord(tree, listed[n])] \o kept]]

\* PATCH subjects/order: the listed subjects in the listed order, then the
\* subjects the list does not mention.
ApplySubjectOrder(tree, ids) ==
  LET known == SelectSeq(ids, LAMBDA x : SubjectFindIndex(tree, x) # -1)
      rest == SelectSeq(tree, LAMBDA r : r.subject_uuid \notin Range(ids))
  IN  [n \in 1..Len(known) |-> At(tree, SubjectFindIndex(tree, known[n]))] \o rest

KnownAnswers(tree) == {AllAnswers(tree)[i].answer_uuid : i \in 1..Len(AllAnswers(tree))}

KnownSubjects(tree) == Range(SubjectUuids(tree))

\* The backend names a new record with an id no record of the tree has.
Fresh(ids, used) == CHOOSE x \in ids \ used : \A y \in ids \ used : x <= y

\* The tree with the record of question q replaced by `question`.
ReplaceQuestion(tree, q, question) ==
  [i \in 1..Len(tree) |->
     [tree[i] EXCEPT !.questions =
        [k \in 1..Len(tree[i].questions) |->
           IF tree[i].questions[k].question_uuid = q
           THEN question ELSE tree[i].questions[k]]]]

\* PUT questions/{q}: the fields of the body replace the question's.
ApplyUpdateQuestion(tree, q, body) ==
  IF q \notin KnownQuestions(tree) \/ "question_type" \notin body.keys THEN tree
  ELSE ReplaceQuestion(tree, q,
         [QuestionRecord(tree, q) EXCEPT !.question_type = body.question_type])

\* DELETE questions/{q}.
ApplyDeleteQuestion(tree, q) ==
  [i \in 1..Len(tree) |->
     [tree[i] EXCEPT !.questions = SelectSeq(@, LAMBDA r : r.question_uuid # q)]]

\* POST questions: the new question goes last in the subject the body
\* names, or in a new last subject when the body carries a subject_title.
ApplyCreateQuestion(tree, body) ==
  LET created == MkQuestion(Fresh(QuestionIds, KnownQuestions(tree)),
                            body.question_type, <<>>)
  IN  IF "subject_title" \in body.keys
      THEN Append(tree, MkSubject(Fresh(SubjectIds, KnownSubjects(tree)), <<created>>))
      ELSE [i \in 1..Len(tree) |->
              IF tree[i].subject_uuid = body.subject_uuid
              THEN [tree[i] EXCEPT !.questions = Append(@, created)] ELSE tree[i]]

\* POST questions/{q}/answers: the new answer goes last, `correct` as sent.
ApplyAddAnswer(tree, q, body) ==
  IF q \notin KnownQuestions(tree) THEN tree
  ELSE ReplaceQuestion(tree, q,
         [QuestionRecord(tree, q) EXCEPT !.answers =
            Append(@, MkAnswer(Fresh(AnswerIds, KnownAnswers(tree)), body.correct))])

\* PUT questions/{q}/answers/{a}: the fields of the body replace the answer's.
ApplyUpdateAnswer(tree, q, a, body) ==
  IF q \notin KnownQuestions(tree) \/ "correct" \notin body.keys THEN tree
  ELSE ReplaceQuestion(tree, q,
         [QuestionRecord(tree, q) EXCEPT !.answers =
            [k \in 1..Len(@) |->
               IF @[k].answer_uuid = a
               THEN [@[k] EXCEPT !.correct = body.correct] ELSE @[k]]])

\* DELETE questions/{q}/answers/{a}.
ApplyDeleteAnswer(tree, q, a) ==
  IF q \notin KnownQuestions(tree) THEN tree
  ELSE ReplaceQuestion(tree, q,
         [QuestionRecord(tree, q) EXCEPT !.answers =
            SelectSeq(@, LAMBDA x : x.answer_uuid # a)])

\* PATCH questions/{q}/answers/order: the listed answers in the listed
\* order, then the answers the list does not mention.
ApplyAnswerOrder(tree, q, ids) ==
  IF q \notin KnownQuestions(tree) THEN tree
  ELSE LET answers == QuestionRecord(tree, q).answers
           known == SelectSeq(ids, LAMBDA x : AnswerFindIndex(answers, x) # -1)
           rest == SelectSeq(answers, LAMBDA x : x.answer_uuid \notin Range(ids))
       IN  ReplaceQuestion(tree, q,
             [QuestionRecord(tree, q) EXCEPT !.answers =
                [n \in 1..Len(known) |-> At(answers, AnswerFindIndex(answers, known[n]))]
                \o rest])

\* POST / DELETE questions/{q}/illustration.
ApplyIllustration(tree, q, present) ==
  IF q \notin KnownQuestions(tree) THEN tree
  ELSE ReplaceQuestion(tree, q,
         [QuestionRecord(tree, q) EXCEPT !.illustration = present])

ServerApply(tree, req) ==
  CASE req.path = "questions/order" -> ApplyQuestionOrder(tree, req.body)
    [] req.path = "subjects/order" -> ApplySubjectOrder(tree, req.body)
    [] req.path = "questions" /\ req.method = "POST" -> ApplyCreateQuestion(tree, req.body)
    [] req.path = "question" /\ req.method = "PUT" -> ApplyUpdateQuestion(tree, req.q, req.body)
    [] req.path = "question" /\ req.method = "DELETE" -> ApplyDeleteQuestion(tree, req.q)
    [] req.path = "answers" -> ApplyAddAnswer(tree, req.q, req.body)
    [] req.path = "answer" /\ req.method = "PUT" -> ApplyUpdateAnswer(tree, req.q, req.a, req.body)
    [] req.path = "answer" /\ req.method = "DELETE" -> ApplyDeleteAnswer(tree, req.q, req.a)
    [] req.path = "answers/order" -> ApplyAnswerOrder(tree, req.q, req.body)
    [] req.path = "illustration" -> ApplyIllustration(tree, req.q, req.method = "POST")
    [] OTHER -> tree

\* The answers of question q in the tree (none when the tree has no such
\* question).
AnswersOf(tree, q) ==
  IF q \in KnownQuestions(tree) THEN QuestionRecord(tree, q).answers ELSE <<>>

\* The backend answers 2xx only a request whose target exists, and creates a
\* record only while an id is left for it.
CanApply(tree, req) ==
  CASE req.path = "questions" /\ req.method = "POST" ->
         /\ QuestionIds \ KnownQuestions(tree) # {}
         /\ IF "subject_title" \in req.body.keys
            THEN SubjectIds \ KnownSubjects(tree) # {}
            ELSE req.body.subject_uuid \in KnownSubjects(tree)
    [] req.path \in {"question", "illustration", "answers/order"} ->
         req.q \in KnownQuestions(tree)
    [] req.path = "answers" ->
         /\ req.q \in KnownQuestions(tree)
         /\ AnswerIds \ KnownAnswers(tree) # {}
    [] req.path = "answer" ->
         AnswerFindIndex(AnswersOf(tree, req.q), req.a) # -1
    [] OTHER -> TRUE

\* The requests whose 2xx body carries the tree.
CarriesTree(req) == req.method = "GET" \/ req.path \in {"questions/order", "subjects/order"}

(* ------------------------------ the state ----------------------------- *)
VARIABLES
  variant,          \* "ai" (QuizQuestionsTab.tsx) or "plain" (QuizPage.tsx)
  isLocked,         \* the isLocked prop
  server,           \* the tree the backend holds
  subjects,         \* useState<Subject[]>: the local tree
  status,           \* useState<string | null>
  error,            \* useState<string | null>
  loading,          \* useState(true)
  creatingQuestion, \* useState(false)
  newQuestion,      \* the new-question form
  aiForm,           \* the AI-generation form (its subject fields)
  serverQuizzes,    \* the quiz list the backend holds
  dashboard,        \* DashboardPage's useState values
  dashboardTasks,   \* DashboardPage's pending runAction and loadQuizzes calls
  tasks,            \* the handler invocations: in flight, or finished
  nops              \* handler invocations so far

dashboardVars == <<serverQuizzes, dashboard, dashboardTasks>>

vars == <<variant, isLocked, server, subjects, status, error, loading,
          creatingQuestion, newQuestion, aiForm, tasks, nops, dashboardVars>>

NoReq == [method |-> "none", path |-> "none", q |-> 0, a |-> 0, body |-> <<>>]
NoResp == [outcome |-> "none", data |-> NoBody]
\* The arguments of an invocation; `text` is the draft a card handler read.
NoArgs == [s |-> 0, q |-> 0, a |-> 0, d |-> 0, c |-> FALSE, keys |-> {}, text |-> "none"]

\* A handler invocation.  pc: "write" / "get" a request is on its way to the
\* backend; "writeResp" / "getResp" its response is on its way back; "done"
\* the handler has returned `ret`.  writes / gets count the requests sent.
IdleTask ==
  [pc |-> "idle", op |-> "none", args |-> NoArgs, req |-> NoReq, resp |-> NoResp,
   message |-> Null, silent |-> FALSE, todo |-> <<>>, ret |-> "none",
   writes |-> 0, gets |-> 0]

Free(t) == tasks[t].pc \in {"idle", "done"}

\* A new invocation takes the first free slot.
FreeSlot(t) == Free(t) /\ \A u \in TaskIds : u < t => ~Free(u)

InFlight == {t \in TaskIds : ~Free(t)}

\* The tab renders its handlers once the first load has finished.
CanStart(t) == FreeSlot(t) /\ ~loading /\ nops < MaxOps

Returned(op, args, ret) ==
  [IdleTask EXCEPT !.pc = "done", !.op = op, !.args = args, !.ret = ret]

Sent(op, args, req, message) ==
  [IdleTask EXCEPT !.pc = "write", !.op = op, !.args = args, !.req = req,
                   !.message = message, !.writes = 1]

\* The invocation returns `ret`.
Finished(tk, ret) == [tk EXCEPT !.pc = "done", !.ret = ret, !.req = NoReq, !.resp = NoResp]

GetTree == [method |-> "GET", path |-> "questions", q |-> 0, a |-> 0, body |-> <<>>]

(* ---------------- the effect that follows a tree change --------------- *)
\* subjectChoice is a subject's id, or one of two reserved values: the empty
\* string of the initial form, and "__new__".
EmptyChoice == 0
NewSubjectChoice == -1

SubjectChoiceEffect_AsPlain(v, prev, subs) ==
  IF prev.subjectChoice # EmptyChoice \/ Len(subs) = 0
  THEN prev
  ELSE [prev EXCEPT !.subjectChoice = subs[1].subject_uuid]

\* useEffect(..., [subjects]) on the new-question form.
SubjectChoiceEffect(v, prev, subs) ==
  IF v = "ai"
  THEN IF Len(subs) = 0
       THEN [prev EXCEPT !.subjectChoice = NewSubjectChoice]
       ELSE IF \E i \in 1..Len(subs) : subs[i].subject_uuid = prev.subjectChoice
            THEN prev
            ELSE [prev EXCEPT !.subjectChoice = subs[1].subject_uuid,
                              !.subjectTitle = <<>>]
  ELSE IF prev.subjectChoice # EmptyChoice \/ Len(subs) = 0
       THEN prev
       ELSE [prev EXCEPT !.subjectChoice = subs[1].subject_uuid]

\* The same effect on the AI-generation form, which only QuizQuestionsTab.tsx
\* has.
AiSubjectChoiceEffect(v, prev, subs) ==
  IF v = "ai"
  THEN IF Len(subs) = 0
       THEN [prev EXCEPT !.subjectChoice = NewSubjectChoice]
       ELSE IF \E i \in 1..Len(subs) : subs[i].subject_uuid = prev.subjectChoice
            THEN prev
            ELSE [prev EXCEPT !.subjectChoice = subs[1].subject_uuid,
                              !.subjectTitle = <<>>]
  ELSE prev

\* setSubjects(tree), with the effect its render triggers.
SetSubjects(tree) ==
  /\ subjects' = tree
  /\ newQuestion' = SubjectChoiceEffect(variant, newQuestion, tree)
  /\ aiForm' = AiSubjectChoiceEffect(variant, aiForm, tree)

(* ------------------------------- Init --------------------------------- *)
InitialForm ==
  [subjectChoice |-> EmptyChoice, subjectTitle |-> <<>>, questionText |-> <<>>,
   questionType |-> "simple", numberOfLines |-> "5"]

InitialAiForm == [subjectChoice |-> EmptyChoice, subjectTitle |-> <<>>]

\* loadSubjects up to its await: setLoading(true), setError(null), the GET.
LoadTask ==
  [IdleTask EXCEPT !.pc = "get", !.op = "load", !.req = GetTree, !.gets = 1]

\* The tab right after its first render and its mount effects, over a
\* backend that holds one of `trees`.
(* ------------------ DashboardPage: state and its tasks ---------------- *)
\* useState of DashboardPage: the page starts loading, with no quiz.
InitialDashboard ==
  [quizzes |-> <<>>, loading |-> TRUE, actionBusy |-> FALSE,
   statusMessage |-> Null, errorMessage |-> Null]

\* A call of runAction or of loadQuizzes that is not running.
NoQuizBody == [has |-> FALSE, quizzes |-> <<>>]
NoQuizResp == [outcome |-> "none", data |-> NoQuizBody]
NoQuizCall == [pc |-> "idle", kind |-> "none", quiz |-> 0, resp |-> NoQuizResp]

\* While the Questions tab of a quiz is open the dashboard is not mounted.
DashboardUnmounted ==
  /\ serverQuizzes = <<>>
  /\ dashboard = InitialDashboard
  /\ dashboardTasks = [action |-> NoQuizCall, load |-> NoQuizCall]

InitWith(trees, variants, locks) ==
  /\ variant \in variants
  /\ isLocked \in locks
  /\ server \in trees
  /\ subjects = <<>>
  /\ status = Null
  /\ error = Null
  /\ loading = TRUE
  /\ creatingQuestion = FALSE
  /\ newQuestion = SubjectChoiceEffect(variant, InitialForm, <<>>)
  /\ aiForm = AiSubjectChoiceEffect(variant, InitialAiForm, <<>>)
  /\ tasks = [t \in TaskIds |-> IF t = 1 THEN LoadTask ELSE IdleTask]
  /\ nops = 0
  /\ DashboardUnmounted

(* ------------------------- reorder handlers --------------------------- *)
ReorderQuestionsRequest(layout) ==
  [method |-> "PATCH", path |-> "questions/order", q |-> 0, a |-> 0, body |-> layout]

ReorderSubjectsRequest(ids) ==
  [method |-> "PATCH", path |-> "subjects/order", q |-> 0, a |-> 0, body |-> ids]

\* reorderQuestions(subjectUuid, questionUuid, direction), up to its await.
reorderQuestions(t, subjectUuid, questionUuid, direction) ==
  LET plan == reorderQuestionsPlan(subjects, subjectUuid, questionUuid, direction)
      args == [NoArgs EXCEPT !.s = subjectUuid, !.q = questionUuid, !.d = direction]
  IN
  /\ CanStart(t)
  /\ nops' = nops + 1
  /\ tasks' = [tasks EXCEPT ![t] =
        IF isLocked \/ ~plan.send
        THEN Returned("reorderQuestions", args, "false")
        ELSE Sent("reorderQuestions", args, ReorderQuestionsRequest(plan.layout),
                  "Questions reordonnees.")]
  /\ UNCHANGED <<dashboardVars, variant, isLocked, server, subjects, status, error, loading,
                 creatingQuestion, newQuestion, aiForm>>

\* moveQuestion(direction) of the card of question q: the card passes the
\* question's own subject (the `isLocked` test of the card is repeated by
\* reorderQuestions).
OnCard(q) == q \in KnownQuestions(subjects)

SubjectOf(subs, q) ==
  subs[CHOOSE i \in 1..Len(subs) :
         QuestionFindIndex(subs[i].questions, q) # -1].subject_uuid

moveQuestion(t, q, direction) ==
  /\ OnCard(q)
  /\ reorderQuestions(t, SubjectOf(subjects, q), q, direction)

\* reorderSubjects(subjectUuid, direction), up to its await.
reorderSubjects(t, subjectUuid, direction) ==
  LET plan == reorderSubjectsPlan(subjects, subjectUuid, direction)
      args == [NoArgs EXCEPT !.s = subjectUuid, !.d = direction]
  IN
  /\ CanStart(t)
  /\ nops' = nops + 1
  /\ tasks' = [tasks EXCEPT ![t] =
        IF isLocked \/ ~plan.send
        THEN Returned("reorderSubjects", args, "false")
        ELSE Sent("reorderSubjects", args, ReorderSubjectsRequest(plan.ids),
                  "Sections reordonnees.")]
  /\ UNCHANGED <<dashboardVars, variant, isLocked, server, subjects, status, error, loading,
                 creatingQuestion, newQuestion, aiForm>>

(* ------------------------ the store operations ------------------------ *)
\* Slot t takes a new invocation, which changes nothing else before its
\* first await.
Start(t, task) ==
  /\ CanStart(t)
  /\ nops' = nops + 1
  /\ tasks' = [tasks EXCEPT ![t] = task]
  /\ UNCHANGED <<dashboardVars, variant, isLocked, server, subjects, status, error, loading,
                 creatingQuestion, newQuestion, aiForm>>

\* An operation that returns false before its fetch, or sends `req`.
Write(op, args, refuse, req, message) ==
  IF refuse THEN Returned(op, args, "false") ELSE Sent(op, args, req, message)

Request(method, path, q, a, body) ==
  [method |-> method, path |-> path, q |-> q, a |-> a, body |-> body]

\* A payload of updateQuestion: the keys it carries, and the value of
\* question_type when it carries one.
PayloadKeys == {"question_text", "question_type", "points"}

QuestionPayload(keys, ty) ==
  [keys |-> keys, question_type |-> IF "question_type" \in keys THEN ty ELSE "simple"]

\* updateQuestion returns false before any request.
updateQuestionRefuses_LockOnly(v, locked, payload) ==
  IF v = "ai" THEN locked /\ payload.keys \cap {"points"} = {} ELSE locked

updateQuestionRefuses(v, locked, payload) ==
  IF v = "ai"
  THEN payload.keys = {} \/ (locked /\ payload.keys \cap {"points"} = {})
  ELSE locked \/ payload.keys = {}

\* The body updateQuestion sends: on a locked quiz, the allowed keys only.
updateQuestionBody_Unfiltered(v, locked, payload) == payload

updateQuestionBody(v, locked, payload) ==
  IF v = "ai" /\ locked
  THEN QuestionPayload(payload.keys \cap {"points"}, payload.question_type)
  ELSE payload

\* The message updateQuestion hands to refreshSubjects.
updateQuestionMessage(v, locked, message) ==
  IF v = "ai"
  THEN IF message # Null THEN message
       ELSE IF locked THEN "Bareme mis a jour." ELSE "Question mise a jour."
  ELSE message

updateQuestionTask(q, payload, message) ==
  Write("updateQuestion", [NoArgs EXCEPT !.q = q, !.keys = payload.keys],
        updateQuestionRefuses(variant, isLocked, payload),
        Request("PUT", "question", q, 0, updateQuestionBody(variant, isLocked, payload)),
        updateQuestionMessage(variant, isLocked, message))

updateQuestion(t, q, payload, message) == Start(t, updateQuestionTask(q, payload, message))

deleteQuestion(t, q) ==
  Start(t, Write("deleteQuestion", [NoArgs EXCEPT !.q = q], isLocked,
                 Request("DELETE", "question", q, 0, <<>>), "Question supprimee."))

addAnswer(t, q, correct) ==
  Start(t, Write("addAnswer", [NoArgs EXCEPT !.q = q, !.c = correct], isLocked,
                 Request("POST", "answers", q, 0, [correct |-> correct]),
                 "Reponse ajoutee."))

\* A payload of updateAnswer, and its options.
AnswerPayload(keys, correct) ==
  [keys |-> keys, correct |-> IF "correct" \in keys THEN correct ELSE FALSE]

Options(silent, allowWhileLocked) ==
  [silent |-> silent, allowWhileLocked |-> allowWhileLocked, message |-> Null]

NoOptions == Options(FALSE, FALSE)

\* updateAnswer returns false before any request.
updateAnswerRefuses_AllowList(v, locked, payload, options) ==
  payload.keys = {} \/ (locked /\ ~options.allowWhileLocked)

updateAnswerRefuses(v, locked, payload, options) ==
  IF v = "ai"
  THEN payload.keys = {} \/ (locked /\ ~options.allowWhileLocked)
  ELSE locked

updateAnswerMessage(v, options) ==
  IF v = "ai" /\ options.message # Null THEN options.message
  ELSE "Reponse mise a jour."

updateAnswerRequest(q, a, payload) == Request("PUT", "answer", q, a, payload)

updateAnswer(t, q, a, payload, options) ==
  Start(t, [Write("updateAnswer",
                  [NoArgs EXCEPT !.q = q, !.a = a, !.c = payload.correct,
                                 !.keys = payload.keys],
                  updateAnswerRefuses(variant, isLocked, payload, options),
                  updateAnswerRequest(q, a, payload),
                  updateAnswerMessage(variant, options))
            EXCEPT !.silent = options.silent])

deleteAnswer(t, q, a) ==
  Start(t, Write("deleteAnswer", [NoArgs EXCEPT !.q = q, !.a = a], isLocked,
                 Request("DELETE", "answer", q, a, <<>>), "Reponse supprimee."))

reorderAnswersTask(q, answerOrder, message) ==
  Write("reorderAnswers", [NoArgs EXCEPT !.q = q], isLocked,
        Request("PATCH", "answers/order", q, 0, answerOrder),
        IF message # Null THEN message ELSE "Ordre des reponses mis a jour.")

reorderAnswers(t, q, answerOrder, message) ==
  Start(t, reorderAnswersTask(q, answerOrder, message))

uploadIllustration(t, q) ==
  Start(t, Write("uploadIllustration", [NoArgs EXCEPT !.q = q], isLocked,
                 Request("POST", "illustration", q, 0, <<>>),
                 "Illustration mise a jour."))

removeIllustration(t, q) ==
  Start(t, Write("removeIllustration", [NoArgs EXCEPT !.q = q], isLocked,
                 Request("DELETE", "illustration", q, 0, <<>>),
                 "Illustration supprimee."))

(* ------------------------- the card's handlers ------------------------ *)
\* A handler that returns before calling the store.
ReturnsEarly(t, op, args) == Start(t, Returned(op, args, "none"))

OnCardAnswer(q, a) == OnCard(q) /\ AnswerFindIndex(AnswersOf(subjects, q), a) # -1

\* What a text draft is once trimmed: empty, the text the record has, or
\* another text.
TextDrafts == {"blank", "unchanged", "changed"}

\* The points draft: the record's points, another number, or not a number.
PointsDrafts == {"unchanged", "changed", "NaN"}

\* The payload handleSaveQuestion builds from the drafts (the subject, the
\* number of lines and the illustration width are left as the record has
\* them).
SaveQuestionKeys(question, draftText, draftType, draftPoints) ==
  (IF draftText = "changed" THEN {"question_text"} ELSE {})
  \cup (IF draftType # question.question_type THEN {"question_type"} ELSE {})
  \cup (IF draftPoints = "changed" THEN {"points"} ELSE {})

handleSaveQuestion(t, q, draftText, draftType, draftPoints) ==
  LET question == QuestionRecord(subjects, q)
      keys == SaveQuestionKeys(question, draftText, draftType, draftPoints)
      args == [NoArgs EXCEPT !.q = q, !.keys = keys, !.text = draftText]
      quiet == IF variant = "ai"
               THEN \/ draftText = "blank"
                    \/ keys = {} /\ ~isLocked
                    \/ isLocked /\ keys \cap {"points"} = {}
               ELSE isLocked \/ draftText = "blank" \/ keys = {}
      nextKeys == IF variant = "ai" /\ isLocked THEN keys \cap {"points"} ELSE keys
      message == IF variant = "ai" /\ isLocked
                 THEN "Bareme mis a jour." ELSE "Question mise a jour."
  IN
  /\ OnCard(q)
  /\ IF quiet
     THEN ReturnsEarly(t, "handleSaveQuestion", args)
     ELSE updateQuestion(t, q, QuestionPayload(nextKeys, draftType), message)

\* handleSaveAnswer returns before calling the store.
saveAnswerQuiet_NoLock(v, locked, question, draft) == draft # "changed"

saveAnswerQuiet(v, locked, question, draft) ==
  \/ IF v = "ai" THEN locked /\ question.question_type # "open" ELSE locked
  \/ draft # "changed"

handleSaveAnswer(t, q, a, draft) ==
  LET question == QuestionRecord(subjects, q)
      options == IF variant = "ai"
                 THEN Options(FALSE, question.question_type = "open")
                 ELSE NoOptions
  IN
  /\ OnCardAnswer(q, a)
  /\ IF saveAnswerQuiet(variant, isLocked, question, draft)
     THEN ReturnsEarly(t, "handleSaveAnswer",
                       [NoArgs EXCEPT !.q = q, !.a = a, !.text = draft])
     ELSE updateAnswer(t, q, a, AnswerPayload({"answer_option"}, FALSE), options)

\* One updateAnswer call of handleToggleCorrect.
Call(q, a, correct, options) ==
  [q |-> q, a |-> a, payload |-> AnswerPayload({"correct"}, correct), options |-> options]

\* The calls handleToggleCorrect makes, in order: one silent deselect per
\* other correct answer of a simple question, then the toggle itself.
ToggleCalls(v, question, a, nextCorrect) ==
  LET others == IF question.question_type = "simple" /\ nextCorrect
                THEN SelectSeq(question.answers,
                               LAMBDA x : x.answer_uuid # a /\ x.correct)
                ELSE <<>>
  IN  [k \in 1..Len(others) |->
         Call(question.question_uuid, others[k].answer_uuid, FALSE,
              Options(TRUE, v = "ai"))]
      \o <<Call(question.question_uuid, a, nextCorrect, Options(FALSE, v = "ai"))>>

\* The handler goes on to its next updateAnswer call: the call's request
\* leaves unless updateAnswer refuses it; after the last call the handler
\* returns.
RECURSIVE StartCalls(_)
StartCalls(tk) ==
  IF tk.todo = <<>>
  THEN Finished(tk, "none")
  ELSE LET call == Head(tk.todo)
           rest == [tk EXCEPT !.todo = Tail(@)]
       IN  IF updateAnswerRefuses(variant, isLocked, call.payload, call.options)
           THEN StartCalls(rest)
           ELSE [rest EXCEPT !.pc = "write",
                             !.req = updateAnswerRequest(call.q, call.a, call.payload),
                             !.resp = NoResp,
                             !.silent = call.options.silent,
                             !.message = updateAnswerMessage(variant, call.options),
                             !.writes = @ + 1]

handleToggleCorrect(t, q, a, nextCorrect) ==
  LET args == [NoArgs EXCEPT !.q = q, !.a = a, !.c = nextCorrect] IN
  /\ OnCardAnswer(q, a)
  /\ IF variant = "plain" /\ isLocked
     THEN ReturnsEarly(t, "handleToggleCorrect", args)
     ELSE Start(t, StartCalls(
            [IdleTask EXCEPT !.op = "handleToggleCorrect", !.args = args,
                             !.todo = ToggleCalls(variant, QuestionRecord(subjects, q),
                                                  a, nextCorrect)]))

handleDeleteAnswer(t, q, a) ==
  /\ OnCardAnswer(q, a)
  /\ IF isLocked
     THEN ReturnsEarly(t, "handleDeleteAnswer", [NoArgs EXCEPT !.q = q, !.a = a])
     ELSE deleteAnswer(t, q, a)

\* The order moveAnswer hands to reorderAnswers.
moveAnswerOrder_ToTheEnd(answers, index, direction) ==
  AnswerUuids(InsertAt(RemoveAt(answers, index),
                       IF direction = 1 THEN Len(answers) - 1 ELSE 0, At(answers, index)))

moveAnswerOrder(answers, index, direction) ==
  AnswerUuids(InsertAt(RemoveAt(answers, index), index + direction, At(answers, index)))

moveAnswer(t, q, a, direction) ==
  LET answers == AnswersOf(subjects, q)
      index == AnswerFindIndex(answers, a)
      targetIndex == index + direction
      args == [NoArgs EXCEPT !.q = q, !.a = a, !.d = direction]
  IN
  /\ OnCardAnswer(q, a)
  /\ IF isLocked \/ index = -1 \/ targetIndex < 0 \/ targetIndex >= Len(answers)
     THEN ReturnsEarly(t, "moveAnswer", args)
     ELSE Start(t, [reorderAnswersTask(q, moveAnswerOrder(answers, index, direction),
                                       "Ordre des reponses mis a jour.")
                      EXCEPT !.args = args])

handleAddAnswer(t, q, draft, newAnswerCorrect) ==
  /\ OnCard(q)
  /\ IF isLocked \/ draft = "blank"
     THEN ReturnsEarly(t, "handleAddAnswer",
                       [NoArgs EXCEPT !.q = q, !.c = newAnswerCorrect, !.text = draft])
     ELSE addAnswer(t, q, newAnswerCorrect)

(* ------------------------ the new-question form ----------------------- *)
\* A text field holds a string over a blank and a letter.
MaxText == 1

Chars == {" ", "a"}

Texts == UNION {[1..n -> Chars] : n \in 0..MaxText}

\* String.prototype.trim.
RECURSIVE TrimStart(_)
TrimStart(s) == IF s # <<>> /\ Head(s) = " " THEN TrimStart(Tail(s)) ELSE s

RECURSIVE TrimEnd(_)
TrimEnd(s) ==
  IF s # <<>> /\ s[Len(s)] = " " THEN TrimEnd(SubSeq(s, 1, Len(s) - 1)) ELSE s

Trim_Identity(s) == s

Trim(s) == TrimEnd(TrimStart(s))

\* The values the number-of-lines field takes, and Number.parseInt(s, 10)
\* on them.
LinesValues == {"", "0", "5", "abc"}

NaN == [nan |-> TRUE, value |-> 0]

ParseInt(s) ==
  CASE s = "0" -> [nan |-> FALSE, value |-> 0]
    [] s = "5" -> [nan |-> FALSE, value |-> 5]
    [] OTHER -> NaN

\* The options of the subject select.
SubjectChoices == {NewSubjectChoice} \cup KnownSubjects(subjects)

handleNewQuestionField(key, value) ==
  /\ ~loading
  /\ CASE key = "questionType" ->
            /\ value \in QuestionTypes
            /\ newQuestion' =
                 [newQuestion EXCEPT
                    !.questionType = value,
                    !.numberOfLines = IF value = "open"
                                      THEN (IF @ = "" THEN "5" ELSE @) ELSE ""]
       [] key = "subjectChoice" ->
            /\ value \in SubjectChoices
            /\ newQuestion' =
                 [newQuestion EXCEPT
                    !.subjectChoice = value,
                    !.subjectTitle = IF value = NewSubjectChoice THEN @ ELSE <<>>]
       [] key = "subjectTitle" ->
            /\ value \in Texts
            /\ newQuestion' = [newQuestion EXCEPT !.subjectTitle = value]
       [] key = "questionText" ->
            /\ value \in Texts
            /\ newQuestion' = [newQuestion EXCEPT !.questionText = value]
       [] key = "numberOfLines" ->
            /\ value \in LinesValues
            /\ newQuestion' = [newQuestion EXCEPT !.numberOfLines = value]
  /\ newQuestion' # newQuestion
  /\ UNCHANGED <<dashboardVars, variant, isLocked, server, subjects, status, error, loading,
                 creatingQuestion, aiForm, tasks, nops>>

\* handleAiFieldChange, for the two subject fields of the AI-generation form:
\* both inputs are disabled on a locked quiz, and the title input is rendered
\* only while the choice is "__new__".
handleAiFieldChange(key, value) ==
  /\ variant = "ai"
  /\ ~loading
  /\ ~isLocked
  /\ CASE key = "subjectChoice" ->
            /\ value \in SubjectChoices
            /\ aiForm' =
                 [aiForm EXCEPT
                    !.subjectChoice = value,
                    !.subjectTitle = IF value = NewSubjectChoice THEN @ ELSE <<>>]
       [] key = "subjectTitle" ->
            /\ aiForm.subjectChoice = NewSubjectChoice
            /\ value \in Texts
            /\ aiForm' = [aiForm EXCEPT !.subjectTitle = value]
  /\ aiForm' # aiForm
  /\ UNCHANGED <<dashboardVars, variant, isLocked, server, subjects, status, error, loading,
                 creatingQuestion, newQuestion, tasks, nops>>

\* The subjects whose "add a question" buttons can be clicked: the button of a
\* section is disabled on a locked quiz, the one on a question card is not.
FocusableSubjects ==
  {subjects[i].subject_uuid : i \in {j \in 1..Len(subjects) :
                                       ~isLocked \/ Len(subjects[j].questions) > 0}}

focusNewQuestionOnSubject(subjectUuid) ==
  /\ ~loading
  /\ subjectUuid \in FocusableSubjects
  /\ newQuestion' = [newQuestion EXCEPT !.subjectChoice = subjectUuid,
                                        !.subjectTitle = <<>>]
  /\ aiForm' = IF variant = "ai"
               THEN [aiForm EXCEPT !.subjectChoice = subjectUuid,
                                   !.subjectTitle = <<>>]
               ELSE aiForm
  /\ UNCHANGED <<dashboardVars, variant, isLocked, server, subjects, status, error, loading,
                 creatingQuestion, tasks, nops>>

resetNewQuestionForm(prev) ==
  [subjectChoice |-> prev.subjectChoice, subjectTitle |-> <<>>, questionText |-> <<>>,
   questionType |-> "simple", numberOfLines |-> "5"]

\* The validation of handleCreateQuestion: the error it sets, or Null when
\* the form passes.
createQuestionError_NoLinesCheck(form) ==
  IF Trim(form.questionText) = <<>>
  THEN "Renseignez l'enonce de la nouvelle question."
  ELSE IF form.subjectChoice = NewSubjectChoice /\ Trim(form.subjectTitle) = <<>>
  THEN "Indiquez le titre de la nouvelle section."
  ELSE Null

createQuestionError(form) ==
  IF Trim(form.questionText) = <<>>
  THEN "Renseignez l'enonce de la nouvelle question."
  ELSE IF form.subjectChoice = NewSubjectChoice /\ Trim(form.subjectTitle) = <<>>
  THEN "Indiquez le titre de la nouvelle section."
  ELSE IF form.questionType = "open"
          /\ LET linesValue == ParseInt(IF form.numberOfLines = "" THEN "0"
                                        ELSE form.numberOfLines)
             IN  linesValue.nan \/ linesValue.value <= 0
  THEN "Indiquez un nombre de lignes valide pour la reponse ouverte."
  ELSE Null

\* The payload of the POST: the keys it carries besides question_text and
\* points, and their values.
createQuestionBody_UuidWheneverChosen(form) ==
  [keys |-> {"question_type"}
            \cup (IF form.subjectChoice = NewSubjectChoice THEN {"subject_title"} ELSE {})
            \cup (IF form.subjectChoice # EmptyChoice THEN {"subject_uuid"} ELSE {}),
   question_type |-> form.questionType,
   subject_title |-> IF form.subjectChoice = NewSubjectChoice
                     THEN Trim(form.subjectTitle) ELSE <<>>,
   subject_uuid |-> form.subjectChoice]

createQuestionBody(form) ==
  [keys |-> {"question_type"}
            \cup (IF form.subjectChoice = NewSubjectChoice THEN {"subject_title"}
                  ELSE IF form.subjectChoice # EmptyChoice THEN {"subject_uuid"}
                  ELSE {}),
   question_type |-> form.questionType,
   subject_title |-> IF form.subjectChoice = NewSubjectChoice
                     THEN Trim(form.subjectTitle) ELSE <<>>,
   subject_uuid |-> IF form.subjectChoice = NewSubjectChoice
                    THEN EmptyChoice ELSE form.subjectChoice]

\* A mutant: a submission goes out while another one is in flight.
handleCreateQuestion_NoBusyGuard(t) ==
  /\ CanStart(t)
  /\ nops' = nops + 1
  /\ IF isLocked
     THEN /\ tasks' = [tasks EXCEPT ![t] = Returned("handleCreateQuestion", NoArgs, "none")]
          /\ UNCHANGED <<status, error, creatingQuestion>>
     ELSE IF createQuestionError(newQuestion) # Null
     THEN /\ error' = createQuestionError(newQuestion)
          /\ tasks' = [tasks EXCEPT ![t] = Returned("handleCreateQuestion", NoArgs, "none")]
          /\ UNCHANGED <<status, creatingQuestion>>
     ELSE /\ creatingQuestion' = TRUE
          /\ error' = Null
          /\ status' = Null
          /\ tasks' = [tasks EXCEPT ![t] =
                Sent("handleCreateQuestion", NoArgs,
                     Request("POST", "questions", 0, 0, createQuestionBody(newQuestion)),
                     "Question ajoutee.")]
  /\ UNCHANGED <<dashboardVars, variant, isLocked, server, subjects, loading, newQuestion, aiForm>>

handleCreateQuestion(t) ==
  /\ CanStart(t)
  /\ nops' = nops + 1
  /\ IF isLocked \/ creatingQuestion
     THEN /\ tasks' = [tasks EXCEPT ![t] = Returned("handleCreateQuestion", NoArgs, "none")]
          /\ UNCHANGED <<status, error, creatingQuestion>>
     ELSE IF createQuestionError(newQuestion) # Null
     THEN /\ error' = createQuestionError(newQuestion)
          /\ tasks' = [tasks EXCEPT ![t] = Returned("handleCreateQuestion", NoArgs, "none")]
          /\ UNCHANGED <<status, creatingQuestion>>
     ELSE /\ creatingQuestion' = TRUE
          /\ error' = Null
          /\ status' = Null
          /\ tasks' = [tasks EXCEPT ![t] =
                Sent("handleCreateQuestion", NoArgs,
                     Request("POST", "questions", 0, 0, createQuestionBody(newQuestion)),
                     "Question ajoutee.")]
  /\ UNCHANGED <<dashboardVars, variant, isLocked, server, subjects, loading, newQuestion, aiForm>>

(* ----------------------------- the backend ---------------------------- *)
Outcomes == {"ok", "okNoSubjects", "httpError", "httpErrorNoBody", "networkError"}

\* The backend answers the request of task t: a 2xx applies the write; a
\* non-2xx or a failed fetch leaves the backend's tree as it is.
ServerHandle(t, outcome) ==
  LET tk == tasks[t]
      after == IF outcome \in {"ok", "okNoSubjects"}
               THEN ServerApply(server, tk.req) ELSE server
  IN
  /\ tk.pc \in {"write", "get"}
  /\ outcome = "okNoSubjects" => CarriesTree(tk.req)
  /\ outcome \in {"ok", "okNoSubjects"} => CanApply(server, tk.req)
  /\ server' = after
  /\ tasks' = [tasks EXCEPT ![t] =
        [tk EXCEPT !.pc = IF tk.pc = "write" THEN "writeResp" ELSE "getResp",
                   !.resp = [outcome |-> outcome,
                             data |-> IF outcome = "ok" /\ CarriesTree(tk.req)
                                      THEN TreeBody(after) ELSE NoBody]]]
  /\ UNCHANGED <<dashboardVars, variant, isLocked, subjects, status, error, loading,
                 creatingQuestion, newQuestion, aiForm, nops>>

(* ------------------------ handler continuations ----------------------- *)
\* reorderQuestions / reorderSubjects after the PATCH: the tree is taken
\* from the response body.
\* A mutant: the move is kept in the local tree when the PATCH failed.
ReorderResponse_KeepsLocalMove(t) ==
  LET tk == tasks[t] IN
  /\ tk.pc = "writeResp"
  /\ tk.op \in {"reorderQuestions", "reorderSubjects"}
  /\ IF Succeeded(tk.resp)
     THEN /\ SetSubjects(normalizeSubjects(tk.resp.data))
          /\ status' = tk.message
          /\ error' = Null
          /\ tasks' = [tasks EXCEPT ![t] = Finished(tk, "true")]
     ELSE /\ error' = ErrorMessage(tk.resp, Fallback(tk.op))
          /\ status' = Null
          /\ tasks' = [tasks EXCEPT ![t] = Finished(tk, "false")]
          /\ SetSubjects(ServerApply(subjects, tk.req))
  /\ UNCHANGED <<dashboardVars, variant, isLocked, server, loading, creatingQuestion, nops>>

\* A mutant: the body is dropped when another invocation is in flight.
ReorderResponse_DropsStale(t) ==
  LET tk == tasks[t] IN
  /\ tk.pc = "writeResp"
  /\ tk.op \in {"reorderQuestions", "reorderSubjects"}
  /\ IF Succeeded(tk.resp)
     THEN /\ SetSubjects(IF InFlight = {t} THEN normalizeSubjects(tk.resp.data)
                          ELSE subjects)
          /\ status' = tk.message
          /\ error' = Null
          /\ tasks' = [tasks EXCEPT ![t] = Finished(tk, "true")]
     ELSE /\ error' = ErrorMessage(tk.resp, Fallback(tk.op))
          /\ status' = Null
          /\ tasks' = [tasks EXCEPT ![t] = Finished(tk, "false")]
          /\ UNCHANGED <<subjects, newQuestion, aiForm>>
  /\ UNCHANGED <<dashboardVars, variant, isLocked, server, loading, creatingQuestion, nops>>

ReorderResponse(t) ==
  LET tk == tasks[t] IN
  /\ tk.pc = "writeResp"
  /\ tk.op \in {"reorderQuestions", "reorderSubjects"}
  /\ IF Succeeded(tk.resp)
     THEN /\ SetSubjects(normalizeSubjects(tk.resp.data))
          /\ status' = tk.message
          /\ error' = Null
          /\ tasks' = [tasks EXCEPT ![t] = Finished(tk, "true")]
     ELSE /\ error' = ErrorMessage(tk.resp, Fallback(tk.op))
          /\ status' = Null
          /\ tasks' = [tasks EXCEPT ![t] = Finished(tk, "false")]
          /\ UNCHANGED <<subjects, newQuestion, aiForm>>
  /\ UNCHANGED <<dashboardVars, variant, isLocked, server, loading, creatingQuestion, nops>>

LoadResponse_LoadingUntilSuccess(t) ==
  LET tk == tasks[t] IN
  /\ tk.pc = "getResp"
  /\ tk.op = "load"
  /\ IF Succeeded(tk.resp)
     THEN /\ SetSubjects(normalizeSubjects(tk.resp.data))
          /\ UNCHANGED <<status, error>>
     ELSE /\ error' = ErrorMessage(tk.resp, FetchFallback)
          /\ status' = Null
          /\ UNCHANGED <<subjects, newQuestion, aiForm>>
  /\ loading' = ~Succeeded(tk.resp)
  /\ tasks' = [tasks EXCEPT ![t] = Finished(tk, "none")]
  /\ UNCHANGED <<dashboardVars, variant, isLocked, server, creatingQuestion, nops>>

\* loadSubjects after the GET.
LoadResponse(t) ==
  LET tk == tasks[t] IN
  /\ tk.pc = "getResp"
  /\ tk.op = "load"
  /\ IF Succeeded(tk.resp)
     THEN /\ SetSubjects(normalizeSubjects(tk.resp.data))
          /\ UNCHANGED <<status, error>>
     ELSE /\ error' = ErrorMessage(tk.resp, FetchFallback)
          /\ status' = Null
          /\ UNCHANGED <<subjects, newQuestion, aiForm>>
  /\ loading' = FALSE
  /\ tasks' = [tasks EXCEPT ![t] = Finished(tk, "none")]
  /\ UNCHANGED <<dashboardVars, variant, isLocked, server, creatingQuestion, nops>>

\* The store operation whose fetch the task awaits.
StoreOp(tk) ==
  CASE tk.op = "handleToggleCorrect" -> "updateAnswer"
    [] tk.op = "handleCreateQuestion" -> "createQuestion"
    [] OTHER -> tk.op

\* After a 2xx the operation calls refreshSubjects, unless the call is
\* silent.
SkipsRefresh_Always(tk) == TRUE

SkipsRefresh(tk) == tk.silent

\* What an operation returns to its caller; a handler returns nothing.
ReturnValue(tk, ok) ==
  IF tk.op \in {"handleToggleCorrect", "handleCreateQuestion"} THEN "none"
  ELSE IF ok THEN "true" ELSE "false"

\* A mutant: the handler gives up after a call that failed.
Continue_StopsOnFailure(tk, ok) ==
  IF tk.todo # <<>> /\ ok THEN StartCalls(tk) ELSE Finished(tk, ReturnValue(tk, ok))

\* The call is over: the handler goes on to its next call or returns.
Continue(tk, ok) ==
  IF tk.todo # <<>> THEN StartCalls(tk) ELSE Finished(tk, ReturnValue(tk, ok))

\* A mutant: a silent call that failed leaves the error as it is.
WriteResponse_SilentKeepsError(t) ==
  LET tk == tasks[t] IN
  /\ tk.pc = "writeResp"
  /\ tk.op \notin {"reorderQuestions", "reorderSubjects"}
  /\ IF Succeeded(tk.resp)
     THEN /\ tasks' = [tasks EXCEPT ![t] =
                IF SkipsRefresh(tk) THEN Continue(tk, TRUE)
                ELSE [tk EXCEPT !.pc = "get", !.req = GetTree, !.resp = NoResp,
                                !.gets = @ + 1]]
          /\ UNCHANGED <<status, error, creatingQuestion>>
     ELSE /\ error' = IF tk.silent THEN error
                      ELSE ErrorMessage(tk.resp, Fallback(StoreOp(tk)))
          /\ status' = IF tk.silent THEN status ELSE Null
          /\ creatingQuestion' =
               IF tk.op = "handleCreateQuestion" THEN FALSE ELSE creatingQuestion
          /\ tasks' = [tasks EXCEPT ![t] = Continue(tk, FALSE)]
  /\ UNCHANGED <<dashboardVars, variant, isLocked, server, subjects, loading, newQuestion, aiForm, nops>>

\* A store operation other than the two reorders, after its write: a 2xx
\* is followed by the GET of refreshSubjects; a failure sets the error.
WriteResponse(t) ==
  LET tk == tasks[t] IN
  /\ tk.pc = "writeResp"
  /\ tk.op \notin {"reorderQuestions", "reorderSubjects"}
  /\ IF Succeeded(tk.resp)
     THEN /\ tasks' = [tasks EXCEPT ![t] =
                IF SkipsRefresh(tk) THEN Continue(tk, TRUE)
                ELSE [tk EXCEPT !.pc = "get", !.req = GetTree, !.resp = NoResp,
                                !.gets = @ + 1]]
          /\ UNCHANGED <<status, error, creatingQuestion>>
     ELSE /\ error' = ErrorMessage(tk.resp, Fallback(StoreOp(tk)))
          /\ status' = IF tk.silent THEN status ELSE Null
          /\ creatingQuestion' =
               IF tk.op = "handleCreateQuestion" THEN FALSE ELSE creatingQuestion
          /\ tasks' = [tasks EXCEPT ![t] = Continue(tk, FALSE)]
  /\ UNCHANGED <<dashboardVars, variant, isLocked, server, subjects, loading, newQuestion, aiForm, nops>>

\* A mutant: the operation returns false when the refetch failed.
RefreshResponse_ReturnsFalse(t) ==
  LET tk == tasks[t]
      created == tk.op = "handleCreateQuestion"
  IN
  /\ tk.pc = "getResp"
  /\ tk.op # "load"
  /\ IF Succeeded(tk.resp)
     THEN LET tree == normalizeSubjects(tk.resp.data)
              form == SubjectChoiceEffect(variant, newQuestion, tree)
          IN  /\ subjects' = tree
              /\ newQuestion' = IF created THEN resetNewQuestionForm(form) ELSE form
              /\ aiForm' = AiSubjectChoiceEffect(variant, aiForm, tree)
              /\ status' = IF tk.message # Null THEN tk.message ELSE status
              /\ error' = Null
     ELSE /\ error' = ErrorMessage(tk.resp, FetchFallback)
          /\ status' = Null
          /\ newQuestion' = IF created THEN resetNewQuestionForm(newQuestion)
                            ELSE newQuestion
          /\ UNCHANGED <<subjects, aiForm>>
  /\ creatingQuestion' = IF created THEN FALSE ELSE creatingQuestion
  /\ tasks' = [tasks EXCEPT ![t] = Continue(tk, Succeeded(tk.resp))]
  /\ UNCHANGED <<dashboardVars, variant, isLocked, server, loading, nops>>

\* refreshSubjects after its GET, and the rest of the operation that
\* awaited it.
RefreshResponse(t) ==
  LET tk == tasks[t]
      created == tk.op = "handleCreateQuestion"
  IN
  /\ tk.pc = "getResp"
  /\ tk.op # "load"
  /\ IF Succeeded(tk.resp)
     THEN LET tree == normalizeSubjects(tk.resp.data)
              form == SubjectChoiceEffect(variant, newQuestion, tree)
          IN  /\ subjects' = tree
              /\ newQuestion' = IF created THEN resetNewQuestionForm(form) ELSE form
              /\ aiForm' = AiSubjectChoiceEffect(variant, aiForm, tree)
              /\ status' = IF tk.message # Null THEN tk.message ELSE status
              /\ error' = Null
     ELSE /\ error' = ErrorMessage(tk.resp, FetchFallback)
          /\ status' = Null
          /\ newQuestion' = IF created THEN resetNewQuestionForm(newQuestion)
                            ELSE newQuestion
          /\ UNCHANGED <<subjects, aiForm>>
  /\ creatingQuestion' = IF created THEN FALSE ELSE creatingQuestion
  /\ tasks' = [tasks EXCEPT ![t] = Continue(tk, TRUE)]
  /\ UNCHANGED <<dashboardVars, variant, isLocked, server, loading, nops>>

(* --------------------- the reorder specification ---------------------- *)
\* Every tree of up to MaxSubjects subjects (ids 1..n, in order) over the
\* questions 1..m, m <= MaxQuestions, each question in one subject.
RECURSIVE Perms(_)
Perms(S) ==
  IF S = {} THEN {<<>>}
  ELSE UNION {{<<x>> \o p : p \in Perms(S \ {x})} : x \in S}

PlainQuestion(q) == MkQuestion(q, "simple", <<>>)

LayoutTrees ==
  UNION {UNION {
    {[i \in 1..n |->
        MkSubject(i, LET mine == SelectSeq(p, LAMBDA q : owner[q] = i)
                     IN  [k \in 1..Len(mine) |-> PlainQuestion(mine[k])])] :
       p \in Perms(1..m), owner \in [1..m -> 1..n]}
    : m \in 0..MaxQuestions} : n \in 1..MaxSubjects}

InitReorder == InitWith(LayoutTrees, {"ai", "plain"}, {FALSE, TRUE})

NextReorder ==
  \/ \E t \in TaskIds, q \in QuestionIds, d \in Directions :
       InFlight = {} /\ moveQuestion(t, q, d)
  \/ \E t \in TaskIds, s \in SubjectIds, d \in Directions :
       InFlight = {} /\ reorderSubjects(t, s, d)
  \/ \E t \in TaskIds, o \in Outcomes : ServerHandle(t, o)
  \/ \E t \in TaskIds : ReorderResponse(t)
  \/ \E t \in TaskIds : LoadResponse(t)

SpecReorder == InitReorder /\ [][NextReorder]_vars

(* ------------------- claims about reorderQuestions -------------------- *)
\* The step in which slot t takes a new invocation of handler `op`.
Invoked(t, op) ==
  /\ FreeSlot(t)
  /\ nops' = nops + 1
  /\ tasks'[t].op = op

\* The invocation returned at once, without a request.
ReturnsFalseAtOnce(t) ==
  /\ tasks'[t].pc = "done"
  /\ tasks'[t].ret = "false"
  /\ tasks'[t].writes = 0
  /\ tasks'[t].gets = 0

Algebra == 1

AlgebraLayout(ids) == <<[subject_uuid |-> Algebra, question_uuids |-> ids]>>

\* C1 (as claimed): with the single subject Algebra holding [Q1, Q2],
\* reorderQuestion(Q1, down) PATCHes and yields [Q2, Q1], and a following
\* reorderQuestion(Q2, down) returns at once leaving [Q2, Q1].
C1_AsClaimed ==
  [][\A t \in TaskIds :
       /\ ( /\ Invoked(t, "reorderQuestions")
            /\ ~isLocked
            /\ LayoutOf(subjects) = AlgebraLayout(<<1, 2>>)
            /\ tasks'[t].args = [NoArgs EXCEPT !.s = Algebra, !.q = 1, !.d = 1]
            => /\ tasks'[t].pc = "write"
               /\ tasks'[t].req.body = AlgebraLayout(<<2, 1>>) )
       /\ ( /\ Invoked(t, "reorderQuestions")
            /\ ~isLocked
            /\ LayoutOf(subjects) = AlgebraLayout(<<2, 1>>)
            /\ tasks[t].op = "reorderQuestions"
            /\ tasks[t].args = [NoArgs EXCEPT !.s = Algebra, !.q = 1, !.d = 1]
            /\ tasks[t].ret = "true"
            /\ tasks'[t].args = [NoArgs EXCEPT !.s = Algebra, !.q = 2, !.d = 1]
            => /\ ReturnsFalseAtOnce(t)
               /\ UNCHANGED subjects )
  ]_vars

\* C1 (amended): with the single subject Algebra holding [Q1, Q2],
\* reorderQuestion(Q1, down) PATCHes the layout [Q2, Q1] and, answered 2xx
\* with the applied tree, leaves the local order [Q2, Q1]; a following
\* reorderQuestion(Q1, down) returns false at once and leaves [Q2, Q1],
\* while a following reorderQuestion(Q2, down) PATCHes [Q1, Q2].
C1_ReorderEndToEnd ==
  [][\A t \in TaskIds :
       /\ ( /\ Invoked(t, "reorderQuestions")
            /\ ~isLocked
            /\ LayoutOf(subjects) = AlgebraLayout(<<1, 2>>)
            /\ tasks'[t].args = [NoArgs EXCEPT !.s = Algebra, !.q = 1, !.d = 1]
            => /\ tasks'[t].pc = "write"
               /\ tasks'[t].req.body = AlgebraLayout(<<2, 1>>) )
       /\ ( /\ tasks[t].pc = "writeResp"
            /\ tasks[t].op = "reorderQuestions"
            /\ tasks[t].req.body = AlgebraLayout(<<2, 1>>)
            /\ tasks[t].resp.outcome = "ok"
            /\ tasks'[t].pc = "done"
            => /\ LayoutOf(subjects') = AlgebraLayout(<<2, 1>>)
               /\ tasks'[t].ret = "true" )
       /\ ( /\ Invoked(t, "reorderQuestions")
            /\ ~isLocked
            /\ LayoutOf(subjects) = AlgebraLayout(<<2, 1>>)
            /\ tasks'[t].args = [NoArgs EXCEPT !.s = Algebra, !.q = 1, !.d = 1]
            => /\ ReturnsFalseAtOnce(t)
               /\ UNCHANGED subjects )
       /\ ( /\ Invoked(t, "reorderQuestions")
            /\ ~isLocked
            /\ LayoutOf(subjects) = AlgebraLayout(<<2, 1>>)
            /\ tasks'[t].args = [NoArgs EXCEPT !.s = Algebra, !.q = 2, !.d = 1]
            => /\ tasks'[t].pc = "write"
               /\ tasks'[t].req.body = AlgebraLayout(<<1, 2>>) )
  ]_vars

\* Reached: [Q1, Q2] was reordered to [Q2, Q1] and the following
\* reorderQuestion(Q1, down) has returned false.
C1_Witness ==
  /\ ~isLocked
  /\ nops = 2
  /\ LayoutOf(subjects) = AlgebraLayout(<<2, 1>>)
  /\ status = "Questions reordonnees."
  /\ \E t \in TaskIds :
       /\ tasks[t].pc = "done"
       /\ tasks[t].op = "reorderQuestions"
       /\ tasks[t].args = [NoArgs EXCEPT !.s = Algebra, !.q = 1, !.d = 1]
       /\ tasks[t].ret = "false"

FirstOfFirst(subs, s, q) ==
  /\ Len(subs) > 0
  /\ subs[1].subject_uuid = s
  /\ Len(subs[1].questions) > 0
  /\ subs[1].questions[1].question_uuid = q

LastOfLast(subs, s, q) ==
  /\ Len(subs) > 0
  /\ subs[Len(subs)].subject_uuid = s
  /\ Len(subs[Len(subs)].questions) > 0
  /\ subs[Len(subs)].questions[Len(subs[Len(subs)].questions)].question_uuid = q

\* C2: reorderQuestions up on the first question of the first subject, and
\* down on the last question of the last subject, returns false without a
\* request and leaves the tree, the status and the error as they are.
C2_EdgeMovesAreNoOps ==
  [][\A t \in TaskIds :
       /\ Invoked(t, "reorderQuestions")
       /\ \/ /\ tasks'[t].args.d = -1
             /\ FirstOfFirst(subjects, tasks'[t].args.s, tasks'[t].args.q)
          \/ /\ tasks'[t].args.d = 1
             /\ LastOfLast(subjects, tasks'[t].args.s, tasks'[t].args.q)
       => /\ ReturnsFalseAtOnce(t)
          /\ UNCHANGED <<subjects, status, error>>
  ]_vars

\* Reached: on an unlocked quiz with two subjects, the last question of the
\* last subject was moved down and the call returned false.
C2_Witness ==
  /\ ~isLocked
  /\ Len(subjects) = 2
  /\ \E t \in TaskIds :
       /\ tasks[t].pc = "done"
       /\ tasks[t].op = "reorderQuestions"
       /\ tasks[t].ret = "false"
       /\ tasks[t].args.d = 1
       /\ LastOfLast(subjects, tasks[t].args.s, tasks[t].args.q)

\* The subject at 0-based index i holds q as its last / first question.
LastOf(subs, i, q) ==
  /\ Len(At(subs, i).questions) > 0
  /\ At(subs, i).questions[Len(At(subs, i).questions)].question_uuid = q

FirstOf(subs, i, q) ==
  /\ Len(At(subs, i).questions) > 0
  /\ At(subs, i).questions[1].question_uuid = q

\* C3: unlocked, subject B directly after subject A: reorderQuestions(down)
\* on the last question of A PATCHes a layout in which A has lost the
\* question and B has it at index 0, before the questions B had.
C3_DownCrossesToHead ==
  [][\A t \in TaskIds : \A i \in 0..(Len(subjects) - 2) :
       /\ Invoked(t, "reorderQuestions")
       /\ ~isLocked
       /\ tasks'[t].args.d = 1
       /\ tasks'[t].args.s = At(subjects, i).subject_uuid
       /\ LastOf(subjects, i, tasks'[t].args.q)
       => /\ tasks'[t].pc = "write"
          /\ tasks'[t].req.method = "PATCH"
          /\ tasks'[t].req.path = "questions/order"
          /\ At(tasks'[t].req.body, i).question_uuids =
               SubSeq(QuestionUuids(At(subjects, i).questions), 1,
                      Len(At(subjects, i).questions) - 1)
          /\ At(tasks'[t].req.body, i + 1).question_uuids =
               <<tasks'[t].args.q>> \o QuestionUuids(At(subjects, i + 1).questions)
  ]_vars

\* Reached: a PATCH is on its way in which the moved question heads the
\* second subject's list, before the question that subject already had.
C3_Witness ==
  \E t \in TaskIds :
    /\ tasks[t].pc = "write"
    /\ tasks[t].op = "reorderQuestions"
    /\ tasks[t].args.d = 1
    /\ tasks[t].args.s = subjects[1].subject_uuid
    /\ Len(subjects) = 2
    /\ Len(subjects[2].questions) = 1
    /\ tasks[t].req.body[2].question_uuids =
         <<tasks[t].args.q, subjects[2].questions[1].question_uuid>>

\* C4: unlocked, subject A directly before subject B: reorderQuestions(up)
\* on the first question of B PATCHes a layout in which B has lost the
\* question and A has it as its last element, after the questions A had.
C4_UpCrossesToTail ==
  [][\A t \in TaskIds : \A i \in 1..(Len(subjects) - 1) :
       /\ Invoked(t, "reorderQuestions")
       /\ ~isLocked
       /\ tasks'[t].args.d = -1
       /\ tasks'[t].args.s = At(subjects, i).subject_uuid
       /\ FirstOf(subjects, i, tasks'[t].args.q)
       => /\ tasks'[t].pc = "write"
          /\ tasks'[t].req.method = "PATCH"
          /\ tasks'[t].req.path = "questions/order"
          /\ At(tasks'[t].req.body, i).question_uuids =
               Tail(QuestionUuids(At(subjects, i).questions))
          /\ At(tasks'[t].req.body, i - 1).question_uuids =
               QuestionUuids(At(subjects, i - 1).questions) \o <<tasks'[t].args.q>>
  ]_vars

\* Reached: a PATCH is on its way in which the moved question closes the
\* first subject's list, after the question that subject already had.
C4_Witness ==
  \E t \in TaskIds :
    /\ tasks[t].pc = "write"
    /\ tasks[t].op = "reorderQuestions"
    /\ tasks[t].args.d = -1
    /\ Len(subjects) = 2
    /\ tasks[t].args.s = subjects[2].subject_uuid
    /\ Len(subjects[1].questions) = 1
    /\ tasks[t].req.body[1].question_uuids =
         <<subjects[1].questions[1].question_uuid, tasks[t].args.q>>

(* --------------------- the answers specification ---------------------- *)
AtMostOneCorrect(question) ==
  Cardinality({k \in 1..Len(question.answers) : question.answers[k].correct}) <= 1

\* Every tree of one subject with one question, of any type, over the
\* answers 1..n, n <= MaxAnswers, in which a simple question has at most one
\* correct answer.
AnswerTrees ==
  LET all == UNION {
        {<<MkSubject(1, <<MkQuestion(1, ty, [k \in 1..n |-> MkAnswer(k, flags[k])])>>)>> :
           ty \in QuestionTypes, flags \in [1..n -> BOOLEAN]} : n \in 0..MaxAnswers}
  IN  {tree \in all :
         tree[1].questions[1].question_type = "simple"
         => AtMostOneCorrect(tree[1].questions[1])}

InitAnswers == InitWith(AnswerTrees, {"ai", "plain"}, {FALSE, TRUE})

\* The card's handlers that change a question's type or its answers, one
\* invocation at a time, over a backend that answers each request with a
\* 2xx or with a non-2xx that carries an error.
NextAnswers ==
  \/ \E t \in TaskIds, q \in QuestionIds, d \in {"blank", "filled"}, c \in BOOLEAN :
       InFlight = {} /\ handleAddAnswer(t, q, d, c)
  \/ \E t \in TaskIds, q \in QuestionIds, a \in AnswerIds, c \in BOOLEAN :
       InFlight = {} /\ handleToggleCorrect(t, q, a, c)
  \/ \E t \in TaskIds, q \in QuestionIds, d \in TextDrafts, ty \in QuestionTypes,
        p \in PointsDrafts :
       InFlight = {} /\ handleSaveQuestion(t, q, d, ty, p)
  \/ \E t \in TaskIds, q \in QuestionIds, a \in AnswerIds :
       InFlight = {} /\ handleDeleteAnswer(t, q, a)
  \/ \E t \in TaskIds, q \in QuestionIds, a \in AnswerIds, d \in TextDrafts :
       InFlight = {} /\ handleSaveAnswer(t, q, a, d)
  \/ \E t \in TaskIds, q \in QuestionIds, a \in AnswerIds, d \in Directions :
       InFlight = {} /\ moveAnswer(t, q, a, d)
  \/ \E t \in TaskIds, o \in {"ok", "httpError"} : ServerHandle(t, o)
  \/ \E t \in TaskIds : WriteResponse(t)
  \/ \E t \in TaskIds : RefreshResponse(t)
  \/ \E t \in TaskIds : LoadResponse(t)

SpecAnswers == InitAnswers /\ [][NextAnswers]_vars

(* ----------------------- claims about the answers --------------------- *)
CorrectAnswers(tree, q) ==
  {k \in 1..Len(AnswersOf(tree, q)) : AnswersOf(tree, q)[k].correct}

\* C5 (as claimed): a toggle to correct=true on a simple question that had
\* another correct answer (so the handler sent a deselect before the toggle
\* itself) leaves, once its requests and the refetch have completed, exactly
\* one correct answer in that question, whatever the deselects' outcomes.
C5_AsClaimed ==
  [][\A t \in TaskIds :
       /\ tasks[t].op = "handleToggleCorrect"
       /\ tasks[t].args.c
       /\ tasks[t].writes >= 2
       /\ tasks[t].pc = "getResp"
       /\ tasks[t].resp.outcome = "ok"
       /\ tasks'[t].pc = "done"
       => Cardinality(CorrectAnswers(subjects', tasks[t].args.q)) = 1
  ]_vars

\* C6 (as claimed): every simple question of the tree the tab shows has at
\* most one correct answer, after any sequence of handleAddAnswer,
\* handleToggleCorrect, handleSaveQuestion and handleDeleteAnswer.
C6_AsClaimed ==
  \A i \in 1..Len(AllQuestions(subjects)) :
    AllQuestions(subjects)[i].question_type = "simple"
    => AtMostOneCorrect(AllQuestions(subjects)[i])

(* ---------------------- the creation specification -------------------- *)
\* The backend holds no subject, or one subject with no question.
CreateTrees == {<<>>, <<MkSubject(1, <<>>)>>}

InitCreate == InitWith(CreateTrees, {"ai", "plain"}, {FALSE, TRUE})

\* The new-question form: its fields are edited between submissions, and it
\* is submitted, also while an earlier submission is still in flight.
NextCreate ==
  \/ \E v \in QuestionTypes :
       InFlight = {} /\ handleNewQuestionField("questionType", v)
  \/ \E v \in SubjectChoices :
       InFlight = {} /\ handleNewQuestionField("subjectChoice", v)
  \/ \E v \in Texts :
       InFlight = {} /\ handleNewQuestionField("subjectTitle", v)
  \/ \E v \in Texts :
       InFlight = {} /\ handleNewQuestionField("questionText", v)
  \/ \E v \in LinesValues :
       InFlight = {} /\ handleNewQuestionField("numberOfLines", v)
  \/ \E t \in TaskIds : handleCreateQuestion(t)
  \/ \E t \in TaskIds, o \in Outcomes : ServerHandle(t, o)
  \/ \E t \in TaskIds : WriteResponse(t)
  \/ \E t \in TaskIds : RefreshResponse(t)
  \/ \E t \in TaskIds : LoadResponse(t)

SpecCreate == InitCreate /\ [][NextCreate]_vars

(* ------------------- claims about handleCreateQuestion ---------------- *)
ValidationErrors ==
  {"Renseignez l'enonce de la nouvelle question.",
   "Indiquez le titre de la nouvelle section.",
   "Indiquez un nombre de lignes valide pour la reponse ouverte."}

\* The text is empty or holds blanks only.
Blank(s) == \A k \in 1..Len(s) : s[k] = " "

\* The form asks for a new subject and its title is empty or blank.
NewSubjectWithoutTitle(form) ==
  /\ form.subjectChoice = NewSubjectChoice
  /\ Blank(form.subjectTitle)

\* The invocation in slot t returned at once and sent nothing.
ReturnsAtOnce(t) ==
  /\ tasks'[t].pc = "done"
  /\ tasks'[t].writes = 0
  /\ tasks'[t].gets = 0

\* C8 (as claimed): submitting the form with subjectChoice = "__new__" and a
\* title that is empty or blank sends no request and leaves a validation
\* error in the error string, whatever the other fields and the lock flag.
C8_AsClaimed ==
  [][\A t \in TaskIds :
       /\ Invoked(t, "handleCreateQuestion")
       /\ NewSubjectWithoutTitle(newQuestion)
       => /\ ReturnsAtOnce(t)
          /\ error' \in ValidationErrors
  ]_vars

\* C8 (amended): such a submission never sends a request.  On an unlocked
\* quiz with no creation in flight it sets the error to the missing-title
\* message, or to the missing-question-text message when the question text
\* is empty or blank; on a locked quiz, or while a creation is in
\* flight, it returns leaving the error and the status as they are.
C8_NoTitleNoRequest ==
  [][\A t \in TaskIds :
       /\ Invoked(t, "handleCreateQuestion")
       /\ NewSubjectWithoutTitle(newQuestion)
       => /\ ReturnsAtOnce(t)
          /\ UNCHANGED <<server, subjects, newQuestion, creatingQuestion>>
          /\ IF isLocked \/ creatingQuestion
             THEN UNCHANGED <<error, status>>
             ELSE /\ error' = IF Blank(newQuestion.questionText)
                              THEN "Renseignez l'enonce de la nouvelle question."
                              ELSE "Indiquez le titre de la nouvelle section."
                  /\ UNCHANGED status
  ]_vars

\* Reached: the form, with a question text and a blank (not empty) title for
\* a new subject, was submitted and the missing-title error is shown.
C8_Witness ==
  /\ ~isLocked
  /\ newQuestion.subjectChoice = NewSubjectChoice
  /\ newQuestion.subjectTitle = <<" ">>
  /\ newQuestion.questionText = <<"a">>
  /\ error = "Indiquez le titre de la nouvelle section."
  /\ \E t \in TaskIds :
       /\ tasks[t].pc = "done"
       /\ tasks[t].op = "handleCreateQuestion"
       /\ tasks[t].writes = 0

(* ----------------------- the store specification ---------------------- *)
\* The backend holds no subject, or two subjects: one with a simple
\* question of two answers, the first correct, and one with no question.
StoreTrees ==
  {<<>>,
   <<MkSubject(1, <<MkQuestion(1, "simple", <<MkAnswer(1, TRUE), MkAnswer(2, FALSE)>>)>>),
     MkSubject(2, <<>>)>>}

Init == InitWith(StoreTrees, {"ai", "plain"}, {FALSE, TRUE})

\* The payloads, options and messages the store operations are called with.
StoreQuestionPayloads ==
  {QuestionPayload({}, "simple"), QuestionPayload({"points"}, "simple"),
   QuestionPayload({"question_type", "points"}, "multiple-choice")}

StoreAnswerPayloads == {AnswerPayload({}, FALSE), AnswerPayload({"correct"}, TRUE)}

StoreOptions == {Options(s, w) : s \in BOOLEAN, w \in BOOLEAN}

StoreMessages == {Null, "Question mise a jour."}

\* A permutation of the answers the card of q shows.
AnswerOrders(q) ==
  {o \in Perms(Range(AnswerUuids(AnswersOf(subjects, q)))) :
     o # AnswerUuids(AnswersOf(subjects, q)) \/ Len(o) < 2}

\* Every operation of the store, called for a record a card shows, one
\* invocation at a time; the form's question text is typed between
\* submissions.
Next ==
  \/ \E v \in Texts : InFlight = {} /\ handleNewQuestionField("questionText", v)
  \/ \E t \in TaskIds : InFlight = {} /\ handleCreateQuestion(t)
  \/ \E t \in TaskIds, q \in QuestionIds, p \in StoreQuestionPayloads, m \in StoreMessages :
       InFlight = {} /\ OnCard(q) /\ updateQuestion(t, q, p, m)
  \/ \E t \in TaskIds, q \in QuestionIds :
       InFlight = {} /\ OnCard(q) /\ deleteQuestion(t, q)
  \/ \E t \in TaskIds, q \in QuestionIds, d \in Directions :
       InFlight = {} /\ moveQuestion(t, q, d)
  \/ \E t \in TaskIds, s \in SubjectIds, d \in Directions :
       InFlight = {} /\ reorderSubjects(t, s, d)
  \/ \E t \in TaskIds, q \in QuestionIds, c \in BOOLEAN :
       InFlight = {} /\ OnCard(q) /\ addAnswer(t, q, c)
  \/ \E t \in TaskIds, q \in QuestionIds, a \in AnswerIds,
        p \in StoreAnswerPayloads, o \in StoreOptions :
       InFlight = {} /\ OnCardAnswer(q, a) /\ updateAnswer(t, q, a, p, o)
  \/ \E t \in TaskIds, q \in QuestionIds, a \in AnswerIds, c \in BOOLEAN :
       InFlight = {} /\ handleToggleCorrect(t, q, a, c)
  \/ \E t \in TaskIds, q \in QuestionIds, a \in AnswerIds :
       InFlight = {} /\ OnCardAnswer(q, a) /\ deleteAnswer(t, q, a)
  \/ \E t \in TaskIds, q \in QuestionIds :
       InFlight = {} /\ OnCard(q) /\ \E o \in AnswerOrders(q) : reorderAnswers(t, q, o, Null)
  \/ \E t \in TaskIds, q \in QuestionIds :
       InFlight = {} /\ OnCard(q) /\ uploadIllustration(t, q)
  \/ \E t \in TaskIds, q \in QuestionIds :
       InFlight = {} /\ OnCard(q) /\ removeIllustration(t, q)
  \/ \E t \in TaskIds, o \in Outcomes : ServerHandle(t, o)
  \/ \E t \in TaskIds : WriteResponse(t)
  \/ \E t \in TaskIds : RefreshResponse(t)
  \/ \E t \in TaskIds : ReorderResponse(t)
  \/ \E t \in TaskIds : LoadResponse(t)

Spec == Init /\ [][Next]_vars

(* ---------------------- claims about the store ------------------------ *)
\* C7: updateQuestion called with an empty payload returns false without a
\* request, in both variants, locked or not, and leaves the tree, the
\* status and the error as they are.
C7_EmptyPayloadIsRefused ==
  [][\A t \in TaskIds :
       /\ Invoked(t, "updateQuestion")
       /\ tasks'[t].args.keys = {}
       => /\ ReturnsFalseAtOnce(t)
          /\ UNCHANGED <<server, subjects, status, error>>
  ]_vars

\* Reached: on an unlocked quiz, where a payload with a key is sent,
\* updateQuestion was called with an empty payload and returned false.
C7_Witness ==
  /\ ~isLocked
  /\ Len(subjects) > 0
  /\ \E t \in TaskIds :
       /\ tasks[t].pc = "done"
       /\ tasks[t].op = "updateQuestion"
       /\ tasks[t].args.keys = {}
       /\ tasks[t].ret = "false"
       /\ tasks[t].writes = 0

\* The step in which task t, whose write was answered 2xx, goes on.
AfterWriteSuccess(t) ==
  /\ tasks[t].pc = "writeResp"
  /\ Succeeded(tasks[t].resp)
  /\ tasks'[t] # tasks[t]

\* The step sends the GET of the whole tree for task t.
IssuesGet(t) ==
  /\ tasks'[t].pc = "get"
  /\ tasks'[t].req = GetTree
  /\ tasks'[t].gets = tasks[t].gets + 1

\* C9 (as claimed): every operation of the store whose write request
\* succeeded then issues a GET of the whole tree.
C9_AsClaimed ==
  [][\A t \in TaskIds : AfterWriteSuccess(t) => IssuesGet(t)]_vars

\* C9 (amended): after its write succeeded, an operation issues the GET of
\* the whole tree, except reorderQuestions and reorderSubjects, which take
\* the tree from the body of the PATCH response and return without a GET,
\* and except an updateAnswer call made with silent: true, which issues no
\* GET either.
C9_RefetchExceptReorderAndSilent ==
  [][\A t \in TaskIds :
       AfterWriteSuccess(t)
       => IF tasks[t].op \in {"reorderQuestions", "reorderSubjects"}
          THEN /\ tasks'[t].pc = "done"
               /\ tasks'[t].gets = 0
               /\ subjects' = normalizeSubjects(tasks[t].resp.data)
          ELSE IF tasks[t].silent
          THEN /\ tasks'[t].gets = tasks[t].gets
               /\ tasks'[t].pc \in {"write", "done"}
               /\ UNCHANGED subjects
          ELSE IssuesGet(t)
  ]_vars

\* Reached: deleteAnswer's DELETE succeeded and its GET is on its way.
C9_Witness ==
  \E t \in TaskIds :
    /\ tasks[t].op = "deleteAnswer"
    /\ tasks[t].pc = "get"
    /\ tasks[t].writes = 1
    /\ tasks[t].gets = 1

MutatingMethods == {"POST", "PUT", "PATCH", "DELETE"}

\* C10: in the variant without AI generation, on a locked quiz, no
\* invocation sends a POST, PUT, PATCH or DELETE.
C10_PlainLockedSendsNoWrite ==
  variant = "plain" /\ isLocked
  => \A t \in TaskIds :
       /\ tasks[t].writes = 0
       /\ tasks[t].req.method \notin MutatingMethods

\* Reached: on a locked quiz of that variant, after an earlier invocation,
\* updateAnswer was called with a payload and returned false unsent.
C10_Witness ==
  /\ variant = "plain"
  /\ isLocked
  /\ Len(subjects) > 0
  /\ nops = 2
  /\ \E t \in TaskIds :
       /\ tasks[t].pc = "done"
       /\ tasks[t].op = "updateAnswer"
       /\ tasks[t].args.keys = {"correct"}
       /\ tasks[t].ret = "false"

(* ------------------ claims about the locked AI variant ---------------- *)
\* Task t has a PUT on an answer on its way, or answered and not yet handled.
AnswerPutInFlight(t) ==
  /\ tasks[t].pc \in {"write", "writeResp"}
  /\ tasks[t].req.method = "PUT"
  /\ tasks[t].req.path = "answer"

TypeOf(tree, q) == QuestionRecord(tree, q).question_type

InitLocked == InitWith(AnswerTrees, {"ai", "plain"}, {TRUE})

\* The payloads updateQuestion is called with on a locked quiz.
LockedQuestionPayloads ==
  {QuestionPayload(keys, "multiple-choice") : keys \in SUBSET PayloadKeys}

\* What a locked quiz lets through: the card's save of a question and of an
\* answer and its toggle of the correct flag, and updateQuestion called
\* with any payload, one invocation at a time.
NextLocked ==
  \/ \E t \in TaskIds, q \in QuestionIds, d \in TextDrafts, ty \in QuestionTypes,
        p \in PointsDrafts :
       InFlight = {} /\ handleSaveQuestion(t, q, d, ty, p)
  \/ \E t \in TaskIds, q \in QuestionIds, p \in LockedQuestionPayloads,
        m \in StoreMessages :
       InFlight = {} /\ OnCard(q) /\ updateQuestion(t, q, p, m)
  \/ \E t \in TaskIds, q \in QuestionIds, a \in AnswerIds, d \in TextDrafts :
       InFlight = {} /\ handleSaveAnswer(t, q, a, d)
  \/ \E t \in TaskIds, q \in QuestionIds, a \in AnswerIds, c \in BOOLEAN :
       InFlight = {} /\ handleToggleCorrect(t, q, a, c)
  \/ \E t \in TaskIds, o \in Outcomes : ServerHandle(t, o)
  \/ \E t \in TaskIds : WriteResponse(t)
  \/ \E t \in TaskIds : RefreshResponse(t)
  \/ \E t \in TaskIds : LoadResponse(t)

SpecLocked == InitLocked /\ [][NextLocked]_vars

\* A PUT on a question is on its way, or answered and not yet handled.
QuestionPutInFlight(t) ==
  /\ tasks[t].pc \in {"write", "writeResp"}
  /\ tasks[t].req.method = "PUT"
  /\ tasks[t].req.path = "question"

\* C12: in the variant with AI generation, on a locked quiz, every PUT on a
\* question has a body whose only key is points; a save of the card, or a
\* call of updateQuestion, whose payload has no points sends no request and
\* returns leaving the tree as it is.
C12_LockedQuestionPutsOnlyPoints ==
  [][variant = "ai" /\ isLocked
     => \A t \in TaskIds :
          /\ QuestionPutInFlight(t) => tasks[t].req.body.keys = {"points"}
          /\ ( /\ Invoked(t, "handleSaveQuestion") \/ Invoked(t, "updateQuestion")
               /\ "points" \notin tasks'[t].args.keys )
             => /\ tasks'[t].pc = "done"
                /\ tasks'[t].writes = 0
                /\ tasks'[t].gets = 0
                /\ UNCHANGED <<server, subjects>>
  ]_vars

\* Reached: on a locked quiz of that variant, a payload carrying the type
\* and the points of a question went out as a PUT of the points alone.
C12_Witness ==
  /\ variant = "ai"
  /\ isLocked
  /\ \E t \in TaskIds :
       /\ QuestionPutInFlight(t)
       /\ tasks[t].args.keys = {"question_type", "points"}
       /\ tasks[t].req.body.keys = {"points"}


(* ------------------------ claims about failures ------------------------ *)
\* The step in which task t, whose write failed and is not a silent one,
\* goes on.
AfterWriteFailure(t) ==
  /\ tasks[t].pc = "writeResp"
  /\ ~Succeeded(tasks[t].resp)
  /\ ~tasks[t].silent
  /\ tasks'[t] # tasks[t]

\* The operation is over and has sent nothing since its write failed, and
\* the status is cleared and the trees are as they were.
StopsAfterFailure(t) ==
  /\ tasks'[t].pc = "done"
  /\ tasks'[t].writes = tasks[t].writes
  /\ tasks'[t].gets = tasks[t].gets
  /\ status' = Null
  /\ UNCHANGED <<server, subjects>>

Handlers == {"handleToggleCorrect", "handleCreateQuestion"}

\* C13 (as claimed): when the write of a mutation that is not silent fails,
\* the operation sends nothing more, sets the error to the one the server
\* sent or else to its generic message, clears the status, leaves the tree
\* as it is and returns false.
C13_AsClaimed ==
  [][\A t \in TaskIds :
       AfterWriteFailure(t)
       => /\ StopsAfterFailure(t)
          /\ error' = IF tasks[t].resp.outcome = "httpError" THEN ServerError
                      ELSE Fallback(StoreOp(tasks[t]))
          /\ tasks'[t].ret = "false"
  ]_vars

\* C13 (amended): when the write of a mutation that is not silent fails,
\* the operation sends nothing more, clears the status and leaves the tree
\* as it is; the error is the one the server sent with a non-2xx, the
\* operation's generic message after a non-2xx without one, and the
\* message of the thrown error when the fetch itself failed; a store
\* operation returns false, a handler that does the fetch itself
\* (handleCreateQuestion) or ignores the store's result
\* (handleToggleCorrect) returns nothing.
C13_WriteFailure ==
  [][\A t \in TaskIds :
       AfterWriteFailure(t)
       => /\ StopsAfterFailure(t)
          /\ error' = CASE tasks[t].resp.outcome = "httpError" -> ServerError
                        [] tasks[t].resp.outcome = "httpErrorNoBody" ->
                             Fallback(StoreOp(tasks[t]))
                        [] tasks[t].resp.outcome = "networkError" -> NetworkError
          /\ tasks'[t].ret = IF tasks[t].op \in Handlers THEN "none" ELSE "false"
  ]_vars

\* Reached: deleteQuestion returned false after its DELETE failed on the
\* network, with the message of the thrown error shown and no refetch.
C13_Witness ==
  /\ error = NetworkError
  /\ status = Null
  /\ Len(subjects) > 0
  /\ \E t \in TaskIds :
       /\ tasks[t].pc = "done"
       /\ tasks[t].op = "deleteQuestion"
       /\ tasks[t].ret = "false"
       /\ tasks[t].writes = 1
       /\ tasks[t].gets = 0


\* C14 (as claimed): when the GET of the tree is answered by a non-2xx, or
\* by a 2xx whose body is not JSON, does not parse or has no subjects list,
\* the fetch fails: an error is shown and the tree stays as it was.
C14_AsClaimed ==
  [][\A t \in TaskIds :
       /\ tasks[t].pc = "getResp"
       /\ tasks[t].resp.outcome # "ok"
       /\ tasks'[t] # tasks[t]
       => /\ subjects' = subjects
          /\ error' # Null
  ]_vars


(* ----------------------- claims about the POST ------------------------- *)
\* C15: the body of every POST that creates a question carries subject_title
\* exactly when subjectChoice is "__new__", and then the trimmed title, which
\* is not empty; it carries subject_uuid exactly when subjectChoice is
\* neither empty nor "__new__", and then that choice; it never carries both.
C15_SubjectKeysExclusive ==
  [][\A t \in TaskIds :
       Invoked(t, "handleCreateQuestion") /\ tasks'[t].pc = "write"
       => LET body == tasks'[t].req.body
              choice == newQuestion.subjectChoice
          IN  /\ tasks'[t].req.method = "POST"
              /\ ~({"subject_title", "subject_uuid"} \subseteq body.keys)
              /\ "subject_title" \in body.keys <=> choice = NewSubjectChoice
              /\ "subject_title" \in body.keys
                 => /\ body.subject_title = TrimEnd(TrimStart(newQuestion.subjectTitle))
                    /\ body.subject_title # <<>>
              /\ "subject_uuid" \in body.keys
                 <=> choice \notin {EmptyChoice, NewSubjectChoice}
              /\ "subject_uuid" \in body.keys => body.subject_uuid = choice
  ]_vars

\* A POST carrying the id of a subject of the tree is on its way.
PostWithSubjectUuid ==
  \E t \in TaskIds :
    /\ tasks[t].op = "handleCreateQuestion"
    /\ tasks[t].pc = "write"
    /\ tasks[t].req.body.keys = {"question_type", "subject_uuid"}
    /\ tasks[t].req.body.subject_uuid \in KnownSubjects(subjects)

\* Reached: with a subject in the tree, a POST carrying the title of a new
\* subject is on its way.
C15_Witness ==
  \E t \in TaskIds :
    /\ tasks[t].op = "handleCreateQuestion"
    /\ tasks[t].pc = "write"
    /\ tasks[t].req.body.keys = {"question_type", "subject_title"}
    /\ tasks[t].req.body.subject_title # <<>>
    /\ Len(subjects) > 0


(* ---------------------- claims about the layouts ----------------------- *)
Occurrences(seq, x) == Cardinality({i \in 1..Len(seq) : seq[i] = x})

Without(seq, x) ==
  LET Other(e) == e # x IN SelectSeq(seq, Other)

\* The ids of a layout, list after list.
RECURSIVE LayoutIds(_)
LayoutIds(layout) ==
  IF layout = <<>> THEN <<>>
  ELSE Head(layout).question_uuids \o LayoutIds(Tail(layout))

\* C16: the layout reorderQuestions PATCHes lists the subjects of the local
\* tree in their order; its lists of question ids hold every question of
\* the tree exactly once and nothing else; and they are the tree's lists
\* but for the place of the moved question, which has changed.
C16_LayoutIsAPermutation ==
  [][\A t \in TaskIds :
       Invoked(t, "reorderQuestions") /\ tasks'[t].pc = "write"
       => LET layout == tasks'[t].req.body
              before == LayoutOf(subjects)
              moved == tasks'[t].args.q
          IN  /\ tasks'[t].req.method = "PATCH"
              /\ Len(layout) = Len(subjects)
              /\ \A i \in 1..Len(layout) :
                   /\ layout[i].subject_uuid = subjects[i].subject_uuid
                   /\ Without(layout[i].question_uuids, moved)
                        = Without(before[i].question_uuids, moved)
              /\ \A q \in QuestionIds :
                   Occurrences(LayoutIds(layout), q)
                     = IF q \in KnownQuestions(subjects) THEN 1 ELSE 0
              /\ layout # before
  ]_vars

\* Reached: a layout is on its way in which a question has left a subject
\* that keeps another question.
C16_Witness ==
  \E t \in TaskIds :
    /\ tasks[t].op = "reorderQuestions"
    /\ tasks[t].pc = "write"
    /\ Len(subjects) = 2
    /\ Len(tasks[t].req.body[1].question_uuids) = 1
    /\ Len(subjects[1].questions) = 2


(* --------------------- the order of the subjects ----------------------- *)
MaxOrder == 3

\* Every order of every set of up to MaxOrder subjects, without questions.
OrderTrees ==
  UNION {{[i \in 1..Len(p) |-> MkSubject(p[i], <<>>)] : p \in Perms(ids)} :
           ids \in SUBSET (1..MaxOrder)}

InitOrder == InitWith(OrderTrees, {"ai", "plain"}, {FALSE, TRUE})

NextOrder ==
  \/ \E t \in TaskIds, s \in 1..MaxOrder, d \in Directions :
       InFlight = {} /\ reorderSubjects(t, s, d)
  \/ \E t \in TaskIds, o \in Outcomes : ServerHandle(t, o)
  \/ \E t \in TaskIds : ReorderResponse(t)
  \/ \E t \in TaskIds : LoadResponse(t)

SpecOrder == InitOrder /\ [][NextOrder]_vars

\* The list `ids` with the entries at places i and j exchanged.
Swapped(ids, i, j) ==
  [k \in 1..Len(ids) |-> IF k = i THEN ids[j] ELSE IF k = j THEN ids[i] ELSE ids[k]]

\* C17: on an unlocked quiz, reorderSubjects PATCHes the ids of all the
\* subjects of the local tree, in the local order but for the given subject,
\* which has changed places with its neighbour in the direction given; for
\* the first subject up, the last subject down, and a subject the tree does
\* not have, it returns false and sends nothing.
C17_SubjectSwapsWithNeighbour ==
  [][\A t \in TaskIds :
       Invoked(t, "reorderSubjects") /\ ~isLocked
       => LET ids == SubjectUuids(subjects)
              s == tasks'[t].args.s
              d == tasks'[t].args.d
              known == \E k \in 1..Len(ids) : ids[k] = s
              i == CHOOSE k \in 1..Len(ids) : ids[k] = s
          IN  IF ~known \/ i + d < 1 \/ i + d > Len(ids)
              THEN ReturnsFalseAtOnce(t) /\ UNCHANGED <<server, subjects>>
              ELSE /\ tasks'[t].pc = "write"
                   /\ tasks'[t].req.method = "PATCH"
                   /\ tasks'[t].req.path = "subjects/order"
                   /\ tasks'[t].req.body = Swapped(ids, i, i + d)
  ]_vars

\* Reached: of three subjects, the first went down one place, and the PATCH
\* lists all three with the third where it was.
C17_Witness ==
  \E t \in TaskIds :
    /\ tasks[t].op = "reorderSubjects"
    /\ tasks[t].pc = "write"
    /\ Len(subjects) = 3
    /\ tasks[t].args.s = subjects[1].subject_uuid
    /\ tasks[t].args.d = 1
    /\ tasks[t].req.body
         = <<subjects[2].subject_uuid, subjects[1].subject_uuid, subjects[3].subject_uuid>>


(* ---------------------- the order of the answers ----------------------- *)
\* One multiple-choice question over every order of every set of up to
\* MaxOrder answers, none of them correct.
MoveTrees ==
  UNION {{<<MkSubject(1, <<MkQuestion(1, "multiple-choice",
                                      [i \in 1..Len(p) |-> MkAnswer(p[i], FALSE)])>>)>> :
            p \in Perms(ids)} :
           ids \in SUBSET (1..MaxOrder)}

InitMove == InitWith(MoveTrees, {"ai", "plain"}, {FALSE, TRUE})

NextMove ==
  \/ \E t \in TaskIds, q \in QuestionIds, a \in 1..MaxOrder, d \in Directions :
       InFlight = {} /\ moveAnswer(t, q, a, d)
  \/ \E t \in TaskIds, o \in Outcomes : ServerHandle(t, o)
  \/ \E t \in TaskIds : WriteResponse(t)
  \/ \E t \in TaskIds : RefreshResponse(t)
  \/ \E t \in TaskIds : LoadResponse(t)

SpecMove == InitMove /\ [][NextMove]_vars

\* The step in which slot t takes a click on an answer's up or down button.
MoveAnswerClicked(t) ==
  /\ FreeSlot(t)
  /\ nops' = nops + 1
  /\ tasks'[t].op \in {"moveAnswer", "reorderAnswers"}

\* C18: on an unlocked quiz, moving an answer up or down PATCHes the ids of
\* all the answers of the question, in the local order but for the moved
\* answer, which has changed places with its neighbour in the direction
\* given; for the first answer up and the last answer down nothing is sent.
C18_AnswerSwapsWithNeighbour ==
  [][\A t \in TaskIds :
       MoveAnswerClicked(t) /\ ~isLocked
       => LET ids == AnswerUuids(AnswersOf(subjects, tasks'[t].args.q))
              a == tasks'[t].args.a
              d == tasks'[t].args.d
              i == CHOOSE k \in 1..Len(ids) : ids[k] = a
          IN  IF i + d < 1 \/ i + d > Len(ids)
              THEN /\ tasks'[t].pc = "done"
                   /\ tasks'[t].writes = 0
                   /\ tasks'[t].gets = 0
                   /\ UNCHANGED <<server, subjects>>
              ELSE /\ tasks'[t].pc = "write"
                   /\ tasks'[t].req.method = "PATCH"
                   /\ tasks'[t].req.path = "answers/order"
                   /\ tasks'[t].req.q = tasks'[t].args.q
                   /\ tasks'[t].req.body = Swapped(ids, i, i + d)
  ]_vars

\* Reached: of three answers, the last went up one place, and the PATCH
\* lists all three with the first where it was.
C18_Witness ==
  \E t \in TaskIds :
    /\ tasks[t].op = "reorderAnswers"
    /\ tasks[t].pc = "write"
    /\ tasks[t].args.d = -1
    /\ LET ids == AnswerUuids(AnswersOf(subjects, tasks[t].args.q))
       IN  /\ Len(ids) = 3
           /\ tasks[t].args.a = ids[3]
           /\ tasks[t].req.body = <<ids[1], ids[3], ids[2]>>


(* ----------------------- claims about the tree ------------------------- *)
\* The tree a response body yields: its subjects list, or no subject when
\* it has none.
TreeOfBody(data) == IF data.has THEN data.subjects ELSE <<>>

\* The step in which task t takes the answer to its request.
TakesResponse(t) ==
  /\ tasks[t].pc \in {"writeResp", "getResp"}
  /\ tasks'[t] # tasks[t]

\* C19: the local tree changes only in a step that takes a 2xx response, to
\* the tree of that response's body; invoking an operation, a write in
\* flight and taking the answer of a failed write leave it as it is.
C19_TreeOnlyFromResponses ==
  [][/\ subjects' # subjects
        => \E t \in TaskIds :
             /\ TakesResponse(t)
             /\ Succeeded(tasks[t].resp)
             /\ subjects' = TreeOfBody(tasks[t].resp.data)
     /\ \A t \in TaskIds :
          /\ tasks'[t] # tasks[t]
          /\ \/ tasks[t].pc \in {"idle", "done", "write", "get"}
             \/ ~Succeeded(tasks[t].resp)
          => subjects' = subjects
  ]_vars

\* Reached: a move of a question was refused by the backend and the local
\* tree, which has questions, differs from what the move asked for.
C19_Witness ==
  /\ error # Null
  /\ AllQuestions(subjects) # <<>>
  /\ \E t \in TaskIds :
       /\ tasks[t].pc = "done"
       /\ tasks[t].op = "reorderQuestions"
       /\ tasks[t].ret = "false"
       /\ tasks[t].writes = 1


(* ------------------------ overlapping mutations ------------------------ *)
\* One subject with two questions, and two subjects with one question each.
RaceTrees ==
  {<<MkSubject(1, <<PlainQuestion(1), PlainQuestion(2)>>)>>,
   <<MkSubject(1, <<PlainQuestion(1)>>), MkSubject(2, <<PlainQuestion(2)>>)>>}

InitRace == InitWith(RaceTrees, {"ai", "plain"}, {FALSE})

\* Moves, deletions and creations of questions started while another one is
\* in flight, their requests answered and their answers taken in any order.
NextRace ==
  \/ \E t \in TaskIds, q \in QuestionIds, d \in Directions : moveQuestion(t, q, d)
  \/ \E t \in TaskIds, q \in QuestionIds : OnCard(q) /\ deleteQuestion(t, q)
  \/ \E v \in Texts : handleNewQuestionField("questionText", v)
  \/ \E t \in TaskIds : handleCreateQuestion(t)
  \/ \E t \in TaskIds, o \in {"ok", "httpError"} : ServerHandle(t, o)
  \/ \E t \in TaskIds : WriteResponse(t)
  \/ \E t \in TaskIds : RefreshResponse(t)
  \/ \E t \in TaskIds : ReorderResponse(t)
  \/ \E t \in TaskIds : LoadResponse(t)

SpecRace == InitRace /\ [][NextRace]_vars

\* The 2xx response task t holds carries a tree the operation assigns.
HoldsTree(t) ==
  /\ Succeeded(tasks[t].resp)
  /\ \/ tasks[t].pc = "getResp"
     \/ tasks[t].pc = "writeResp" /\ tasks[t].op \in {"reorderQuestions", "reorderSubjects"}

\* C20: with mutations overlapping, each response that carries a tree
\* replaces the local tree when it is taken, whatever the backend's tree
\* has become since and whatever else is in flight; so the local tree is
\* that of the response taken last.
C20_LastResponseWins ==
  [][\A t \in TaskIds :
       TakesResponse(t) /\ HoldsTree(t)
       => subjects' = TreeOfBody(tasks[t].resp.data)
  ]_vars

\* Reached: a move and a deletion overlapped, both succeeded and are over,
\* and the local tree is not the backend's.
C20_Witness ==
  /\ \A t \in TaskIds : tasks[t].pc = "done" /\ tasks[t].ret = "true"
  /\ \E t, u \in TaskIds :
       /\ tasks[t].op = "reorderQuestions"
       /\ tasks[u].op = "deleteQuestion"
  /\ subjects # server


(* ----------------------- client-side validation ------------------------ *)
ValidateTrees == {<<MkSubject(1, <<MkQuestion(1, "simple", <<MkAnswer(1, TRUE)>>)>>)>>}

InitValidate == InitWith(ValidateTrees, {"ai", "plain"}, {FALSE})

\* The handlers that read a text the user typed, on an unlocked quiz: the
\* new-question form is filled in, then come its submission and a card's
\* save of the question's text, save of an answer's text and addition of an
\* answer, one invocation at a time.
NextValidate ==
  \/ \E v \in QuestionTypes :
       nops = 0 /\ handleNewQuestionField("questionType", v)
  \/ \E v \in SubjectChoices :
       nops = 0 /\ handleNewQuestionField("subjectChoice", v)
  \/ \E v \in Texts :
       nops = 0 /\ handleNewQuestionField("subjectTitle", v)
  \/ \E v \in Texts :
       nops = 0 /\ handleNewQuestionField("questionText", v)
  \/ \E v \in LinesValues :
       nops = 0 /\ handleNewQuestionField("numberOfLines", v)
  \/ \E t \in TaskIds : InFlight = {} /\ handleCreateQuestion(t)
  \/ \E t \in TaskIds, q \in QuestionIds, d \in TextDrafts :
       /\ InFlight = {}
       /\ OnCard(q)
       /\ handleSaveQuestion(t, q, d, TypeOf(subjects, q), "unchanged")
  \/ \E t \in TaskIds, q \in QuestionIds, a \in AnswerIds, d \in TextDrafts :
       InFlight = {} /\ handleSaveAnswer(t, q, a, d)
  \/ \E t \in TaskIds, q \in QuestionIds, d \in {"blank", "filled"} :
       InFlight = {} /\ handleAddAnswer(t, q, d, FALSE)
  \/ \E t \in TaskIds, o \in {"ok", "httpError"} : ServerHandle(t, o)
  \/ \E t \in TaskIds : WriteResponse(t)
  \/ \E t \in TaskIds : RefreshResponse(t)
  \/ \E t \in TaskIds : LoadResponse(t)

SpecValidate == InitValidate /\ [][NextValidate]_vars

\* The form asks for an open question and its number of lines is not a
\* positive number.
InvalidLines(form) ==
  /\ form.questionType = "open"
  /\ form.numberOfLines \in {"", "0", "abc"}

\* The form fails the validation of handleCreateQuestion.
InvalidForm(form) ==
  \/ Blank(form.questionText)
  \/ NewSubjectWithoutTitle(form)
  \/ InvalidLines(form)

\* Slot t takes a card handler that read an empty or blank text.
BlankDraftSubmitted(t) ==
  /\ \/ Invoked(t, "handleSaveQuestion")
     \/ Invoked(t, "handleSaveAnswer")
     \/ Invoked(t, "handleAddAnswer")
  /\ tasks'[t].args.text = "blank"

\* C21 (as claimed): a submission that fails a client-side validation (the
\* form's question text, new-subject title or number of lines; a card's
\* question text or answer text) sends no request and sets the error.
C21_AsClaimed ==
  [][\A t \in TaskIds :
       \/ Invoked(t, "handleCreateQuestion") /\ ~creatingQuestion
          /\ InvalidForm(newQuestion)
       \/ BlankDraftSubmitted(t)
       => /\ ReturnsAtOnce(t)
          /\ error' # Null
  ]_vars

\* C21 (amended): such a submission sends no request.  The form's
\* submission sets the error to the message of the first check that fails
\* (question text, then title, then number of lines) and leaves the status;
\* a card's save or addition with an empty or blank text returns leaving
\* the error and the status as they are.
C21_ValidationBeforeRequest ==
  [][\A t \in TaskIds :
       /\ ( Invoked(t, "handleCreateQuestion") /\ ~creatingQuestion
            /\ InvalidForm(newQuestion) )
          => /\ ReturnsAtOnce(t)
             /\ error' = IF Blank(newQuestion.questionText)
                         THEN "Renseignez l'enonce de la nouvelle question."
                         ELSE IF NewSubjectWithoutTitle(newQuestion)
                         THEN "Indiquez le titre de la nouvelle section."
                         ELSE "Indiquez un nombre de lignes valide pour la reponse ouverte."
             /\ UNCHANGED <<server, subjects, status, creatingQuestion>>
       /\ BlankDraftSubmitted(t)
          => /\ ReturnsAtOnce(t)
             /\ UNCHANGED <<server, subjects, status, error>>
  ]_vars

\* Reached: with no error shown, a card's save of a question whose text was
\* blanked has returned, and no error is shown.
C21_Witness ==
  /\ error = Null
  /\ \E t \in TaskIds :
       /\ tasks[t].pc = "done"
       /\ tasks[t].op = "handleSaveQuestion"
       /\ tasks[t].args.text = "blank"
       /\ tasks[t].writes = 0


(* ------------------------- the toggle's calls -------------------------- *)
\* One simple question over the answers 1..MaxOrder, any of them correct
\* (a question made simple keeps the correct answers it had).
ToggleTrees ==
  {<<MkSubject(1, <<MkQuestion(1, "simple",
                               [k \in 1..MaxOrder |-> MkAnswer(k, flags[k])])>>)>> :
     flags \in [1..MaxOrder -> BOOLEAN]}

InitToggle == InitWith(ToggleTrees, {"ai", "plain"}, {FALSE, TRUE})

NextToggle ==
  \/ \E t \in TaskIds, q \in QuestionIds, a \in 1..MaxOrder, c \in BOOLEAN :
       InFlight = {} /\ handleToggleCorrect(t, q, a, c)
  \/ \E t \in TaskIds, o \in {"ok", "httpError", "networkError"} : ServerHandle(t, o)
  \/ \E t \in TaskIds : WriteResponse(t)
  \/ \E t \in TaskIds : RefreshResponse(t)
  \/ \E t \in TaskIds : LoadResponse(t)

SpecToggle == InitToggle /\ [][NextToggle]_vars

\* The answers of question q other than a that the tree shows correct, in
\* the tree's order.
OtherCorrect(tree, q, a) ==
  LET Picked(x) == x.answer_uuid # a /\ x.correct
  IN  AnswerUuids(SelectSeq(AnswersOf(tree, q), Picked))

\* Task t sends a request in this step.
SendsWrite(t) == tasks'[t].writes = tasks[t].writes + 1

\* C22: in a toggle to correct=true on a simple question, the k-th request
\* is the deselect of the k-th other correct answer, and after the last of
\* them comes the request that sets the target's flag; each request but the
\* first is sent in the step that takes the response to the one before;
\* and the response to a deselect, failed or not, is followed by the next
\* request.
C22_DeselectsThenToggle ==
  [][\A t \in TaskIds :
       /\ tasks'[t].op = "handleToggleCorrect"
       /\ tasks'[t].args.c
       /\ tasks'[t].pc # "done" \/ tasks[t].pc = "writeResp"
       => LET q == tasks'[t].args.q
              a == tasks'[t].args.a
              others == OtherCorrect(subjects, q, a)
              k == tasks'[t].writes
          IN  /\ SendsWrite(t)
                 => /\ Free(t) \/ tasks[t].pc = "writeResp"
                    /\ tasks'[t].pc = "write"
                    /\ tasks'[t].req.method = "PUT"
                    /\ tasks'[t].req.q = q
                    /\ tasks'[t].req.a = IF k <= Len(others) THEN others[k] ELSE a
                    /\ tasks'[t].req.body.correct = (k > Len(others))
                    /\ k <= Len(others) + 1
              /\ ( /\ tasks[t].pc = "writeResp"
                   /\ tasks[t].writes <= Len(others)
                   /\ tasks'[t] # tasks[t] )
                 => SendsWrite(t)
  ]_vars

\* Reached: with two other answers correct, the first deselect failed, the
\* second succeeded, and the request that sets the target's flag left.
C22_Witness ==
  /\ error # Null
  /\ \E t \in TaskIds :
       /\ tasks[t].op = "handleToggleCorrect"
       /\ tasks[t].args.c
       /\ tasks[t].pc = "write"
       /\ tasks[t].writes = 3
       /\ tasks[t].req.a = tasks[t].args.a
       /\ Len(OtherCorrect(server, tasks[t].args.q, tasks[t].args.a)) = 1


\* The step in which the toggle in slot t takes the response to a silent
\* deselect that failed.
SilentFailureTaken(t) ==
  /\ tasks[t].op = "handleToggleCorrect"
  /\ tasks[t].pc = "writeResp"
  /\ tasks[t].silent
  /\ ~Succeeded(tasks[t].resp)
  /\ tasks'[t] # tasks[t]

\* C23 (as claimed): a silent deselect that fails leaves the error string as
\* it is.
C23_AsClaimed ==
  [][\A t \in TaskIds : SilentFailureTaken(t) => error' = error]_vars

\* C23 (amended): a silent deselect that fails sets the error string to the
\* message of its failure and leaves the status and the tree as they are,
\* and the toggle goes on; the error the toggle leaves when it finishes is
\* that of its last request alone: none after a refetch that succeeded.
C23_SilentFailureSetsError ==
  [][\A t \in TaskIds :
       /\ SilentFailureTaken(t)
          => /\ error' = CASE tasks[t].resp.outcome = "httpError" -> ServerError
                           [] tasks[t].resp.outcome = "networkError" -> NetworkError
                           [] OTHER -> Fallback("updateAnswer")
             /\ UNCHANGED <<status, subjects>>
             /\ tasks'[t].pc = "write"
       /\ ( /\ tasks[t].op = "handleToggleCorrect"
            /\ tasks[t].pc = "getResp"
            /\ Succeeded(tasks[t].resp)
            /\ tasks'[t].pc = "done" )
          => error' = Null
  ]_vars

\* Reached: the toggle of the plain variant is still running, its last
\* request on its way, and the error of a deselect that failed is shown,
\* with the status of an earlier toggle.
C23_Witness ==
  /\ variant = "plain"
  /\ error = ServerError
  /\ status # Null
  /\ \E t \in TaskIds :
       /\ tasks[t].op = "handleToggleCorrect"
       /\ tasks[t].pc = "write"
       /\ ~tasks[t].silent
       /\ tasks[t].writes >= 2


\* The submissions of the new-question form that have sent their POST and
\* have not finished.
CreatesInFlight ==
  {t \in TaskIds : tasks[t].op = "handleCreateQuestion" /\ ~Free(t)}

\* C24: at most one creation is in flight, and creatingQuestion is true
\* exactly while one is: a submission made meanwhile returns at once and
\* sends nothing, and the flag is false again once the creation has
\* finished, whether its POST and its refetch succeeded or failed.
C24_OneCreateInFlight ==
  [][/\ Cardinality(CreatesInFlight) <= 1
     /\ creatingQuestion <=> CreatesInFlight # {}
     /\ (Cardinality(CreatesInFlight) <= 1)'
     /\ (creatingQuestion <=> CreatesInFlight # {})'
     /\ \A t \in TaskIds :
          Invoked(t, "handleCreateQuestion") /\ creatingQuestion
          => /\ ReturnsAtOnce(t)
             /\ UNCHANGED <<creatingQuestion, error, status, subjects, server>>
  ]_vars

\* Reached: a submission returned at once while the POST of an earlier one
\* is in flight.
C24_Witness ==
  /\ creatingQuestion
  /\ \E t, u \in TaskIds :
       /\ tasks[t].op = "handleCreateQuestion"
       /\ tasks[t].pc = "write"
       /\ tasks[u].op = "handleCreateQuestion"
       /\ tasks[u].pc = "done"
       /\ tasks[u].writes = 0

\* A move and a deletion have their requests in flight together.
OtherMutationsOverlap ==
  \E t, u \in TaskIds :
    /\ tasks[t].op = "reorderQuestions" /\ tasks[t].pc = "write"
    /\ tasks[u].op = "deleteQuestion" /\ tasks[u].pc = "write"


\* C25 (as claimed): the status string and the error string are never both
\* set.
C25_AsClaimed == status = Null \/ error = Null


(* ------------------------ a move and its inverse ----------------------- *)
\* The local tree once a backend that applies layouts as sent has answered
\* the PATCH of `layout`.
TreeAfterPatch(tree, layout) ==
  normalizeSubjects(TreeBody(ApplyQuestionOrder(tree, layout)))

\* C26: whenever reorderQuestions PATCHes a layout for question q in one
\* direction, then on the tree that layout yields the move of q in the
\* opposite direction PATCHes a layout too, and it is the layout of the tree
\* before the first move; inside a subject and across a subject boundary,
\* into and out of an empty subject.
C26_MoveThenInverseRestores ==
  [][\A t \in TaskIds :
       Invoked(t, "reorderQuestions") /\ tasks'[t].pc = "write"
       => LET q == tasks'[t].args.q
              d == tasks'[t].args.d
              moved == TreeAfterPatch(subjects, tasks'[t].req.body)
              back == reorderQuestionsPlan(moved, SubjectOf(moved, q), q, 0 - d)
          IN  /\ LayoutOf(moved) = tasks'[t].req.body
              /\ LayoutOf(moved) # LayoutOf(subjects)
              /\ back.send
              /\ back.layout = LayoutOf(subjects)
              /\ TreeAfterPatch(moved, back.layout) = subjects
  ]_vars

\* Reached: question 1, the only one, went down from the first subject into
\* the empty second one (the status tells that the move succeeded), and the
\* PATCH of its move up is on its way with the layout before both moves.
C26_Witness ==
  /\ nops = 2
  /\ status = "Questions reordonnees."
  /\ LayoutOf(subjects) = <<[subject_uuid |-> 1, question_uuids |-> <<>>],
                            [subject_uuid |-> 2, question_uuids |-> <<1>>]>>
  /\ \E t \in TaskIds :
       /\ tasks[t].pc = "write"
       /\ tasks[t].op = "reorderQuestions"
       /\ tasks[t].args = [NoArgs EXCEPT !.s = 2, !.q = 1, !.d = -1]
       /\ tasks[t].req.body = <<[subject_uuid |-> 1, question_uuids |-> <<1>>],
                                [subject_uuid |-> 2, question_uuids |-> <<>>]>>


\* The step in which task t, whose write succeeded, takes the response to
\* a refetch that failed.
RefetchFailureTaken(t) ==
  /\ tasks[t].pc = "getResp"
  /\ tasks[t].op # "load"
  /\ ~Succeeded(tasks[t].resp)
  /\ tasks'[t] # tasks[t]

\* C27: when the write of an operation succeeded and the GET that follows
\* fails, the operation is over and a store operation returns true (a
\* handler returns nothing), the local tree stays as it is, the error is
\* set to the message of the failure and the status is null.
C27_RefetchFailure ==
  [][\A t \in TaskIds :
       RefetchFailureTaken(t)
       => /\ tasks'[t].pc = "done"
          /\ tasks'[t].ret = IF tasks[t].op \in Handlers THEN "none" ELSE "true"
          /\ tasks[t].writes >= 1
          /\ subjects' = subjects
          /\ error' = CASE tasks[t].resp.outcome = "httpError" -> ServerError
                        [] tasks[t].resp.outcome = "networkError" -> NetworkError
                        [] OTHER -> "Impossible de charger les questions."
          /\ status' = Null
  ]_vars

\* Reached: updateQuestion returned true, the backend has applied its
\* write, and the local tree is still the one before it, with an error and
\* no status.
C27_Witness ==
  /\ error # Null
  /\ status = Null
  /\ subjects # server
  /\ \E t \in TaskIds :
       /\ tasks[t].pc = "done"
       /\ tasks[t].op = "updateQuestion"
       /\ tasks[t].ret = "true"
       /\ tasks[t].writes = 1
       /\ tasks[t].gets = 1


(* ------------------- the subject choice of the two forms ---------------- *)
\* An empty quiz, one section, and two sections.
ChoiceTrees ==
  {<<>>,
   <<MkSubject(1, <<PlainQuestion(1)>>)>>,
   <<MkSubject(1, <<PlainQuestion(1)>>), MkSubject(2, <<PlainQuestion(2)>>)>>}

InitChoice == InitWith(ChoiceTrees, {"ai"}, {FALSE})

\* The subject fields of both forms are edited, questions are created and
\* deleted and sections moved while other operations are in flight, so that
\* the answer to an earlier request can bring back an older tree.
NextChoice ==
  \/ \E v \in SubjectChoices : handleNewQuestionField("subjectChoice", v)
  \/ handleNewQuestionField("subjectTitle", <<"a">>)
  \/ handleNewQuestionField("questionText", <<"a">>)
  \/ \E v \in SubjectChoices : handleAiFieldChange("subjectChoice", v)
  \/ handleAiFieldChange("subjectTitle", <<"a">>)
  \/ \E s \in SubjectIds : focusNewQuestionOnSubject(s)
  \/ \E t \in TaskIds : handleCreateQuestion(t)
  \/ \E t \in TaskIds, q \in QuestionIds : OnCard(q) /\ deleteQuestion(t, q)
  \/ \E t \in TaskIds, s \in SubjectIds, d \in Directions : reorderSubjects(t, s, d)
  \/ \E t \in TaskIds, o \in {"ok", "okNoSubjects", "httpError"} : ServerHandle(t, o)
  \/ \E t \in TaskIds : WriteResponse(t)
  \/ \E t \in TaskIds : RefreshResponse(t)
  \/ \E t \in TaskIds : ReorderResponse(t)
  \/ \E t \in TaskIds : LoadResponse(t)

SpecChoice == InitChoice /\ [][NextChoice]_vars

\* The step in which task t takes a 2xx answer and calls setSubjects: the
\* answer to a GET, or to a reorder PATCH.
SetsSubjects(t) ==
  /\ TakesResponse(t)
  /\ Succeeded(tasks[t].resp)
  /\ \/ tasks[t].pc = "getResp"
     \/ tasks[t].op \in {"reorderQuestions", "reorderSubjects"}

\* The subject choice before the step, and the choice and the title after
\* it, of the new-question form and of the AI form.
ChoiceSteps ==
  {<<newQuestion.subjectChoice, newQuestion'.subjectChoice, newQuestion'.subjectTitle>>,
   <<aiForm.subjectChoice, aiForm'.subjectChoice, aiForm'.subjectTitle>>}

\* C28: in the variant with AI generation, after a step that sets the tree
\* the subject choice of each form is "__new__" or the id of a subject of the
\* new tree; it is "__new__" when the new tree has no subject; and a choice
\* that named a subject missing from the new tree has become the id of the
\* new tree's first subject, with the subject title emptied.
C28_ChoiceFollowsTree ==
  [][\A t \in TaskIds :
       variant = "ai" /\ SetsSubjects(t)
       => \A f \in ChoiceSteps :
            /\ f[2] \in {NewSubjectChoice} \cup KnownSubjects(subjects')
            /\ subjects' = <<>> => f[2] = NewSubjectChoice
            /\ ( /\ f[1] \in SubjectIds
                 /\ f[1] \notin KnownSubjects(subjects')
                 /\ subjects' # <<>> )
               => /\ f[2] = subjects'[1].subject_uuid
                  /\ f[3] = <<>>
  ]_vars

\* Reached: both forms name subject 2, which the local tree has, and the
\* answer about to be taken is a 2xx whose tree has subject 1 only.
C28_Witness ==
  /\ variant = "ai"
  /\ newQuestion.subjectChoice = 2
  /\ aiForm.subjectChoice = 2
  /\ 2 \in KnownSubjects(subjects)
  /\ \E t \in TaskIds :
       /\ tasks[t].pc = "getResp"
       /\ Succeeded(tasks[t].resp)
       /\ KnownSubjects(TreeOfBody(tasks[t].resp.data)) = {1}


(* --------------------------- the loading flag --------------------------- *)
\* The initial load of task t has its GET out, or the answer not yet taken.
LoadPending(t) ==
  /\ tasks[t].op = "load"
  /\ tasks[t].pc \in {"get", "getResp"}

\* C29: while the initial load is pending loading is true; the step that
\* takes the answer to its GET makes loading false, and when that answer is a
\* failure it sets the error string, leaves the status string null and leaves
\* the tree as it was; once false, loading is never true again, whatever
\* refetch follows a mutation.
C29_LoadingOnlyForTheLoad ==
  [][/\ \A t \in TaskIds : LoadPending(t) => loading
     /\ \A t \in TaskIds :
          LoadPending(t) /\ TakesResponse(t)
          => /\ loading' = FALSE
             /\ ~Succeeded(tasks[t].resp)
                => /\ error' # Null
                   /\ status' = Null
                   /\ subjects' = subjects
     /\ ~loading => ~loading'
  ]_vars

\* Reached: the initial load failed on a quiz that has questions: the tab
\* shows the server's error over an empty tree and is no longer loading.
C29_Witness ==
  /\ ~loading
  /\ error = ServerError
  /\ status = Null
  /\ subjects = <<>>
  /\ server # <<>>
  /\ nops = 0
  /\ \E t \in TaskIds : tasks[t].op = "load" /\ tasks[t].pc = "done"


(* ============================ DashboardPage ============================= *)
MaxQuizzes == 2
QuizIds == 1..MaxQuizzes

\* quiz_state: the page only tells "locked" from the rest.
QuizStates == {"locked", "unlocked"}

MkQuiz(id, state) == [quiz_uuid |-> id, quiz_state |-> state]

QuizUuids(list) == {list[i].quiz_uuid : i \in 1..Len(list)}

QuizLists ==
  {list \in UNION {[1..n -> {MkQuiz(id, st) : id \in QuizIds, st \in QuizStates}] :
                     n \in 0..MaxQuizzes} :
     \A i, j \in 1..Len(list) : i # j => list[i].quiz_uuid # list[j].quiz_uuid}

(* ----------------- the backend's quiz list (not in src/) --------------- *)
\* Whether the backend can carry out a request on the list it holds.
CanServeQuizRequest(list, kind, quiz) ==
  CASE kind = "create" -> QuizIds \ QuizUuids(list) # {}
    [] kind = "duplicate" -> quiz \in QuizUuids(list) /\ QuizIds \ QuizUuids(list) # {}
    [] kind \in {"delete", "unlock"} -> quiz \in QuizUuids(list)

\* The list after POST /quizzes, POST /quizzes/{id}/duplicate,
\* DELETE /quizzes/{id} or POST /quizzes/{id}/unlock.
ServeQuizRequest(list, kind, quiz) ==
  CASE kind \in {"create", "duplicate"} ->
         Append(list, MkQuiz(Fresh(QuizIds, QuizUuids(list)), "unlocked"))
    [] kind = "delete" ->
         LET Kept(z) == z.quiz_uuid # quiz IN SelectSeq(list, Kept)
    [] kind = "unlock" ->
         [i \in 1..Len(list) |->
            IF list[i].quiz_uuid = quiz
            THEN [list[i] EXCEPT !.quiz_state = "unlocked"] ELSE list[i]]

QuizWriteOutcomes == {"ok", "httpError", "networkError"}
QuizReadOutcomes == {"ok", "okNoBody", "httpError", "networkError"}

\* The backend answers the request of a pending call: `which` is "action"
\* (a runAction call) or "load" (a loadQuizzes call of its own).
QuizServerHandle(which, outcome) ==
  LET call == dashboardTasks[which] IN
  /\ call.pc \in {"request", "get"}
  /\ IF call.pc = "request"
     THEN /\ outcome \in QuizWriteOutcomes
          /\ outcome = "ok" => CanServeQuizRequest(serverQuizzes, call.kind, call.quiz)
          /\ serverQuizzes' = IF outcome = "ok"
                              THEN ServeQuizRequest(serverQuizzes, call.kind, call.quiz)
                              ELSE serverQuizzes
          /\ dashboardTasks' =
               [dashboardTasks EXCEPT ![which] =
                  [call EXCEPT !.pc = "requestResp",
                               !.resp = [outcome |-> outcome, data |-> NoQuizBody]]]
     ELSE /\ outcome \in QuizReadOutcomes
          /\ dashboardTasks' =
               [dashboardTasks EXCEPT ![which] =
                  [call EXCEPT !.pc = "getResp",
                               !.resp = [outcome |-> outcome,
                                         data |-> IF outcome = "ok"
                                                  THEN [has |-> TRUE, quizzes |-> serverQuizzes]
                                                  ELSE NoQuizBody]]]
          /\ UNCHANGED serverQuizzes
  /\ UNCHANGED <<dashboard, variant, isLocked, server, subjects, status, error,
                 loading, creatingQuestion, newQuestion, aiForm, tasks, nops>>

(* ------------------------------ loadQuizzes ---------------------------- *)
tabVars == <<variant, isLocked, server, subjects, status, error, loading,
             creatingQuestion, newQuestion, aiForm, tasks, nops>>

\* loadQuizzes up to its fetch: setLoading(true), setErrorMessage(null).
loadQuizzesStart(d) == [d EXCEPT !.loading = TRUE, !.errorMessage = Null]

\* loadQuizzes from the answer on: setQuizzes(data?.quizzes || []) on a 2xx,
\* setErrorMessage in the catch, setLoading(false) in the finally.
loadQuizzesEnd(d, resp) ==
  IF resp.outcome \in {"ok", "okNoBody"}
  THEN [d EXCEPT !.quizzes = IF resp.data.has THEN resp.data.quizzes ELSE <<>>,
                 !.loading = FALSE]
  ELSE [d EXCEPT !.errorMessage = IF resp.outcome = "networkError"
                                  THEN NetworkError
                                  ELSE "Impossible de recuperer les quizzes.",
                 !.loading = FALSE]

GetQuizzes == [pc |-> "get", kind |-> "load", quiz |-> 0, resp |-> NoQuizResp]

\* The "Actualiser" button, disabled while loading or actionBusy. One such
\* call is followed at a time.
loadQuizzes ==
  /\ ~dashboard.loading
  /\ ~dashboard.actionBusy
  /\ dashboardTasks.load.pc = "idle"
  /\ dashboard' = loadQuizzesStart(dashboard)
  /\ dashboardTasks' = [dashboardTasks EXCEPT !.load = GetQuizzes]
  /\ UNCHANGED <<serverQuizzes, tabVars>>

\* The answer to a loadQuizzes call of its own (on mount, or the button).
loadQuizzesResponse ==
  /\ dashboardTasks.load.pc = "getResp"
  /\ dashboard' = loadQuizzesEnd(dashboard, dashboardTasks.load.resp)
  /\ dashboardTasks' = [dashboardTasks EXCEPT !.load = NoQuizCall]
  /\ UNCHANGED <<serverQuizzes, tabVars>>

(* ------------------------------- runAction ----------------------------- *)
QuizStatus(kind) ==
  CASE kind = "create" -> "Quiz cree."
    [] kind = "duplicate" -> "Quiz copie."
    [] kind = "delete" -> "Quiz supprime."
    [] kind = "unlock" -> "Quiz deverrouille."

\* The message of the error fn throws: its own on a non-2xx answer, fetch's
\* when no answer came.
QuizError(kind, resp) ==
  IF resp.outcome = "networkError" THEN NetworkError
  ELSE CASE kind = "create" -> "La creation du quiz a echoue."
         [] kind = "duplicate" -> "La duplication a echoue."
         [] kind = "delete" -> "La suppression a echoue."
         [] kind = "unlock" -> "Impossible de deverrouiller ce quiz."

\* runAction up to the fetch of fn.
runAction(kind, quiz) ==
  /\ dashboard' = [dashboard EXCEPT !.actionBusy = TRUE,
                                    !.statusMessage = Null,
                                    !.errorMessage = Null]
  /\ dashboardTasks' =
       [dashboardTasks EXCEPT !.action =
          [pc |-> "request", kind |-> kind, quiz |-> quiz, resp |-> NoQuizResp]]
  /\ UNCHANGED <<serverQuizzes, tabVars>>

\* The buttons of a listed quiz are rendered when the page is not loading,
\* and every action button is disabled while actionBusy.
Listed(quiz) ==
  /\ ~dashboard.loading
  /\ ~dashboard.actionBusy
  /\ quiz \in QuizUuids(dashboard.quizzes)

QuizNamed(list, quiz) == list[CHOOSE i \in 1..Len(list) : list[i].quiz_uuid = quiz]

handleCreateQuiz ==
  /\ ~dashboard.actionBusy
  /\ runAction("create", 0)

\* requestedTitle is what window.prompt returned: Null when cancelled.
handleDuplicateQuiz(quiz, requestedTitle) ==
  /\ Listed(quiz)
  /\ IF requestedTitle = Null THEN UNCHANGED vars ELSE runAction("duplicate", quiz)

handleDeleteQuiz(quiz, confirmed) ==
  /\ Listed(quiz)
  /\ IF ~confirmed THEN UNCHANGED vars ELSE runAction("delete", quiz)

handleUnlockQuiz(quiz, confirmed) ==
  /\ Listed(quiz)
  /\ QuizNamed(dashboard.quizzes, quiz).quiz_state = "locked"
  /\ IF ~confirmed THEN UNCHANGED vars ELSE runAction("unlock", quiz)

runActionResponse_ReloadsAlways ==
  LET call == dashboardTasks.action IN
  /\ call.pc = "requestResp"
  /\ IF call.resp.outcome = "ok"
     THEN dashboard' = loadQuizzesStart([dashboard EXCEPT !.statusMessage = QuizStatus(call.kind)])
     ELSE dashboard' = loadQuizzesStart([dashboard EXCEPT !.errorMessage = QuizError(call.kind, call.resp)])
  /\ dashboardTasks' = [dashboardTasks EXCEPT !.action = [call EXCEPT !.pc = "get", !.resp = NoQuizResp]]
  /\ UNCHANGED <<serverQuizzes, tabVars>>

\* runAction once fn has settled: on success fn has set the status message
\* and loadQuizzes is called; on failure the catch sets the error message
\* and the finally clears actionBusy.
runActionResponse ==
  LET call == dashboardTasks.action IN
  /\ call.pc = "requestResp"
  /\ IF call.resp.outcome = "ok"
     THEN /\ dashboard' = loadQuizzesStart(
                            [dashboard EXCEPT !.statusMessage = QuizStatus(call.kind)])
          /\ dashboardTasks' =
               [dashboardTasks EXCEPT !.action =
                  [call EXCEPT !.pc = "get", !.resp = NoQuizResp]]
     ELSE /\ dashboard' = [dashboard EXCEPT
                             !.errorMessage = QuizError(call.kind, call.resp),
                             !.actionBusy = FALSE]
          /\ dashboardTasks' = [dashboardTasks EXCEPT !.action = NoQuizCall]
  /\ UNCHANGED <<serverQuizzes, tabVars>>

\* runAction once its loadQuizzes has settled: the finally.
runActionReloaded ==
  LET call == dashboardTasks.action IN
  /\ call.pc = "getResp"
  /\ dashboard' = [loadQuizzesEnd(dashboard, call.resp) EXCEPT !.actionBusy = FALSE]
  /\ dashboardTasks' = [dashboardTasks EXCEPT !.action = NoQuizCall]
  /\ UNCHANGED <<serverQuizzes, tabVars>>

\* While the dashboard is shown no Questions tab is mounted.
TabUnmounted ==
  /\ variant = "ai"
  /\ isLocked = FALSE
  /\ server = <<>>
  /\ subjects = <<>>
  /\ status = Null
  /\ error = Null
  /\ loading = TRUE
  /\ creatingQuestion = FALSE
  /\ newQuestion = InitialForm
  /\ aiForm = InitialAiForm
  /\ tasks = [t \in TaskIds |-> IdleTask]
  /\ nops = 0

\* The page after its first render and the effect that calls loadQuizzes.
InitDashboard ==
  /\ TabUnmounted
  /\ serverQuizzes \in QuizLists
  /\ dashboard = loadQuizzesStart(InitialDashboard)
  /\ dashboardTasks = [action |-> NoQuizCall, load |-> GetQuizzes]

NextDashboard ==
  \/ loadQuizzes
  \/ loadQuizzesResponse
  \/ handleCreateQuiz
  \/ \E quiz \in QuizIds, requestedTitle \in {Null, "copie"} :
       handleDuplicateQuiz(quiz, requestedTitle)
  \/ \E quiz \in QuizIds, confirmed \in BOOLEAN : handleDeleteQuiz(quiz, confirmed)
  \/ \E quiz \in QuizIds, confirmed \in BOOLEAN : handleUnlockQuiz(quiz, confirmed)
  \/ \E which \in {"action", "load"}, outcome \in QuizReadOutcomes :
       QuizServerHandle(which, outcome)
  \/ runActionResponse
  \/ runActionReloaded

SpecDashboard == InitDashboard /\ [][NextDashboard]_vars


\* The runAction call is running: its request or its reload is out.
ActionRunning(calls) == calls.action.pc # "idle"

\* C30: a dashboard action sends its reload GET only in the step that takes
\* the 2xx answer to its request; the step that takes a failed answer sends
\* no GET, leaves the list and loading as they are, sets the error message,
\* leaves the status message null and clears actionBusy; the step that takes
\* the answer to the reload clears actionBusy; and actionBusy is true exactly
\* while the action is running.
C30_ReloadOnlyAfterSuccess ==
  [][LET call == dashboardTasks.action
         after == dashboardTasks'.action
     IN  /\ dashboard.actionBusy <=> ActionRunning(dashboardTasks)
         /\ dashboard'.actionBusy <=> ActionRunning(dashboardTasks')
         /\ after.pc = "get" /\ call.pc # "get"
            => call.pc = "requestResp" /\ call.resp.outcome = "ok"
         /\ call.pc = "requestResp" /\ after # call /\ call.resp.outcome # "ok"
            => /\ after.pc = "idle"
               /\ dashboard'.quizzes = dashboard.quizzes
               /\ dashboard'.loading = dashboard.loading
               /\ dashboard'.errorMessage # Null
               /\ dashboard'.statusMessage = Null
               /\ ~dashboard'.actionBusy
         /\ call.pc = "getResp" /\ after # call
            => after.pc = "idle" /\ ~dashboard'.actionBusy
  ]_vars

\* Reached: a deletion was refused: the page shows the error and no status,
\* is not busy, and still lists the quiz, which the backend still has.
C30_Witness ==
  /\ dashboard.errorMessage = "La suppression a echoue."
  /\ dashboard.statusMessage = Null
  /\ ~dashboard.actionBusy
  /\ ~dashboard.loading
  /\ dashboardTasks.action = NoQuizCall
  /\ dashboardTasks.load = NoQuizCall
  /\ dashboard.quizzes = serverQuizzes
  /\ serverQuizzes # <<>>

====
